---- MODULE Spec2Model ----
(***************************************************************************)
(* Model of migration_tools: the two transaction coordinators run_merge    *)
(* (merge.py: source -> target) and run_merge_up (merge_up.py: source ->   *)
(* leporid + usagipass), their section migrators and the databases they    *)
(* act on.                                                                 *)
(*                                                                         *)
(* A database endpoint is modelled by its committed content db[e] and the  *)
(* content work[e] seen inside the transaction the run holds open on it.   *)
(* Every call that can raise (create_engine, connect, begin, a statement   *)
(* of a section, commit, rollback) has a failing outcome.                  *)
(***************************************************************************)
EXTENDS Integers, Sequences, FiniteSets, TLC

VARIABLES
    variant,        \* which entry point is invoked: "merge" | "merge_up"
    config,         \* MergeConfig / MergeUpConfig: dry_run, batch_size, admin_user_id
    db,             \* endpoint -> committed tables
    work,           \* endpoint -> tables as seen inside the open transaction
    engine,         \* endpoint -> "none" | "created" | "disposed"
    conn,           \* endpoint -> "none" | "open" | "closed"
    tx,             \* endpoint -> "none" | "active" | "committed" | "rolledback"
    pc,             \* position of the run
    k,              \* index into the endpoint list of the current coordinator step
    err,            \* exception in flight ("None" when there is none)
    raised,         \* exception that reached the caller
    result,         \* value returned to the caller ("None" until a normal return)
    run,            \* 1 for the first invocation, 2 for the repeated one
    first,          \* result and rows written by the first invocation
    i, j,           \* loop positions of the current section
    summary,        \* MergeSectionResult of the current section
    existing,       \* in-memory existing-key map of the current section
    payload,        \* rows accumulated for the next upsert
    migrated_users, \* List[MigratedUser] built by _migrate_users
    server_ids,     \* identifier -> id, from _load_server_ids
    results,        \* section name -> MergeSectionResult of finished sections
    nuuid,          \* number of uuid4() values drawn in this run
    assigned,       \* history: {section, key, id, decision, held} for every key reconciled
    refs,           \* history: {section, source, user_id} for every dependent row built
    wrote,          \* history: section -> rows handed to its upsert statement
    failed_at,      \* history: pc at which a section raised ("None" if none did)
    thrown,         \* history: the error that section raised
    dirty,          \* history: endpoints holding uncommitted writes when the section raised
    pre,            \* history: committed content of the databases when the run started
    call,           \* a call of a helper function: its name, arguments and outcome
    overwrite,      \* CopyImageConfig.overwrite
    source_dir,     \* file name -> entry of the source directory of copy-img
    target_dir,     \* file name -> entry of the target directory of copy-img
    image_ids,      \* ids that SELECT id FROM tbl_image ORDER BY id streams
    stats,          \* CopyImageStats of _copy_images
    copy_pc,        \* position of _copy_images
    copy_at         \* index in image_ids of the row _copy_images handles next

cfgVars == <<variant, config>>
dbVars == <<db, work>>
conVars == <<engine, conn, tx>>
locVars == <<i, j, summary, existing, payload, migrated_users, server_ids, results, nuuid>>
histVars == <<assigned, refs, wrote, failed_at, thrown, dirty>>
libVars == <<call>>
copyVars == <<overwrite, source_dir, target_dir, image_ids, stats, copy_pc, copy_at>>
vars == <<variant, config, db, work, engine, conn, tx, pc, k, err, raised, result,
          run, first, pre, i, j, summary, existing, payload, migrated_users, server_ids,
          results, nuuid, assigned, refs, wrote, failed_at, thrown, dirty,
          call, overwrite, source_dir, target_dir, image_ids, stats, copy_pc, copy_at>>

(***************************************************************************)
(* Bounds of the explored inputs.                                          *)
(***************************************************************************)
MaxUsers == 2
MaxBatch == 2

None == "None"

(***************************************************************************)
(* Small helpers.                                                          *)
(***************************************************************************)
Range(s) == {s[x] : x \in 1..Len(s)}

RECURSIVE Flatten(_)
Flatten(ss) == IF ss = <<>> THEN <<>> ELSE Head(ss) \o Flatten(Tail(ss))

Last(s) == s[Len(s)]

\* MergeSectionResult() -- transform.py
MergeSectionResult == [processed |-> 0, inserted |-> 0, updated |-> 0, skipped |-> 0]

Bump(s, f) == [s EXCEPT ![f] = @ + 1]

\* str(uuid.uuid4()): a value no table and no earlier call holds
uuid4(r, n) == "uuid-" \o ToString(r) \o "-" \o ToString(n)

(***************************************************************************)
(* Program constants.                                                      *)
(***************************************************************************)
SERVER_RULES ==
    [s \in {"DIVING_FISH", "LXNS"} |->
        IF s = "DIVING_FISH"
        THEN [prefix |-> "dvfh_", strategy |-> 1, identifier |-> "divingfish"]
        ELSE [prefix |-> "lxns_", strategy |-> 2, identifier |-> "lxns"]]

SupportedServers == DOMAIN SERVER_RULES

KIND_TO_ASPECT == {"BACKGROUND", "FRAME", "CHARACTER", "MASK", "LABEL"}

\* the words of the explored inputs, each as <<upper case, lower case, mixed case>>
Words ==
    {<<"BACKGROUND", "background", "Background">>, <<"FRAME", "frame", "Frame">>,
     <<"CHARACTER", "character", "Character">>, <<"MASK", "mask", "Mask">>,
     <<"LABEL", "label", "Label">>, <<"UNKNOWN", "unknown", "Unknown">>,
     <<"FRAMES", "frames", "Frames">>, <<"LXNS", "lxns", "Lxns">>,
     <<"DIVING_FISH", "diving_fish", "Diving_Fish">>,
     <<"DIVINGFISH", "divingfish", "DivingFish">>,
     <<"HOLIDAY", "holiday", "Holiday">>, <<" HOLIDAY ", " holiday ", " Holiday ">>,
     <<"L1", "l1", "L1">>, <<" L1 ", " l1 ", " L1 ">>}

\* str.upper() / str.lower() on the strings that occur in the explored inputs;
\* a string without letters is its own upper and lower case
Upper(s) ==
    IF \E w \in Words : s \in {w[1], w[2], w[3]}
    THEN (CHOOSE w \in Words : s \in {w[1], w[2], w[3]})[1]
    ELSE s

Lower(s) ==
    IF \E w \in Words : s \in {w[1], w[2], w[3]}
    THEN (CHOOSE w \in Words : s \in {w[1], w[2], w[3]})[2]
    ELSE s


(***************************************************************************)
(* Endpoints of each coordinator, in the order the code uses them.         *)
(***************************************************************************)
\* create_engine / connect / begin / dispose order
Endpoints(v) ==
    IF v = "merge" THEN <<"source", "target">> ELSE <<"source", "leporid", "usagipass">>

\* order of the tx.rollback() calls
RollbackOrder(v) ==
    IF v = "merge" THEN <<"target", "source">> ELSE <<"source", "leporid", "usagipass">>

\* the commits in the order in which the connections were opened
CommitOrderAsOpened(v) ==
    IF v = "merge" THEN <<"source", "target">> ELSE <<"leporid", "source", "usagipass">>

\* order of the tx.commit() calls
CommitOrder(v) ==
    IF v = "merge" THEN <<"target", "source">> ELSE <<"source", "leporid", "usagipass">>

Targets(v) == IF v = "merge" THEN {"target"} ELSE {"leporid", "usagipass"}

EndpointSet(v) == Range(Endpoints(v))

\* a coordinator that set up its first endpoint only
OnlyFirstEndpoint(v) == Len(<<Endpoints(v)[1]>>)

NumEndpoints(v) == Len(Endpoints(v))

\* Python values of the legacy flag columns: None, a bool or an int
PyNone == [t |-> "NoneType", v |-> 0]

PyBool(b) == [t |-> "bool", v |-> IF b THEN 1 ELSE 0]

PyInt(n) == [t |-> "int", v |-> n]

\* a coercion that ignores the default
CoerceWithoutDefault(value, default) == value.v # 0

\* _coerce_bool: None gives the default, a bool itself, anything else bool(int(value))
_coerce_bool(value, default) ==
    IF value.t = "NoneType" THEN default
    ELSE IF value.t = "bool" THEN value.v = 1
    ELSE value.v # 0

(***************************************************************************)
(* Explored inputs of run_merge_up.                                        *)
(***************************************************************************)
Acct(name, server) ==
    [account_name |-> name, account_server |-> server,
     account_password |-> "cred_" \o name,
     player_rating |-> IF name = "a" THEN 10 ELSE 20]

\* rows of users joined with their user_accounts rows (ORDER BY account_server)
Profiles ==
    << [prefer_server |-> "LXNS", accounts |-> <<Acct("a", "DIVING_FISH")>>],
       [prefer_server |-> "lxns",
        accounts |-> <<Acct("a", "DIVING_FISH"), Acct("b", "LXNS")>>],
       [prefer_server |-> "WECHAT",
        accounts |-> <<Acct("a", "LXNS"), Acct("b", "lxns"), Acct("c", "WECHAT")>>],
       [prefer_server |-> None, accounts |-> <<>>],
       [prefer_server |-> "LXNS", accounts |-> <<Acct("c", "WECHAT")>>] >>

SrcUsername(x) == "u" \o ToString(x)

\* rows of the source images table, in ORDER BY uploaded_at, id order: a valid
\* image, one of unknown kind, one whose uploader is no source user, one of the
\* second user and one without uploader
UpImages ==
    << [id |-> "img1", name |-> "n1", kind |-> "frame", sega_name |-> None,
        uploaded_by |-> "u1"],
       [id |-> "1a0bbc52", name |-> None, kind |-> "UNKNOWN", sega_name |-> "sega1",
        uploaded_by |-> "u1"],
       [id |-> "img3", name |-> "n3", kind |-> "Mask", sega_name |-> None,
        uploaded_by |-> "ghost"],
       [id |-> "img4", name |-> "n4", kind |-> "FRAME", sega_name |-> None,
        uploaded_by |-> None],
       [id |-> "img5", name |-> " ", kind |-> "MASK", sega_name |-> " L1 ",
        uploaded_by |-> "u2"] >>

\* source database of run_merge_up for a choice p of one profile per user
UpSource(p) ==
    [users |-> [x \in DOMAIN p |->
                  [username |-> SrcUsername(x),
                   prefer_server |-> Profiles[p[x]].prefer_server,
                   created_at |-> "t-src"]],
     user_accounts |-> Flatten([x \in DOMAIN p |->
                  [y \in DOMAIN Profiles[p[x]].accounts |->
                     [username |-> SrcUsername(x)] @@ Profiles[p[x]].accounts[y]]]),
     user_preferences |->
         {[username |-> "u1", maimai_version |-> "FESTiVAL", simplified_code |-> None,
           character_name |-> "Char", friend_code |-> "1234", display_name |-> "d1",
           dx_rating |-> None, qr_size |-> PyInt(20), mask_type |-> PyNone,
           character_id |-> "1a0bbc52", background_id |-> "1051f05f",
           frame_id |-> "zzz", passname_id |-> "", chara_info_color |-> None,
           show_date |-> PyInt(0)]},
     images |-> UpImages]

(***************************************************************************)
(* Target databases of run_merge_up before the run.  Rows keep the columns *)
(* the statements of the code read or write, without the timestamps other  *)
(* than tbl_user.created_at.                                               *)
(***************************************************************************)
DefaultAspect == [id |-> "id-1-ff", name |-> "ISO 7810 ID-1 FF"]

LeporidEmpty ==
    [tbl_user |-> {}, tbl_user_third_party |-> {}, tbl_image |-> {}, tbl_image_aspect |-> {}]

LeporidSeeded ==
    [tbl_user |-> {[id |-> "old-u1", username |-> "dvfh_a", password |-> "pw-old",
                    email |-> "a@x", created_at |-> "t-old"]},
     tbl_user_third_party |-> {[id |-> "old-tp1", user_id |-> "old-u1", username |-> "a",
                                strategy |-> 1]},
     tbl_image |-> {[id |-> "img1", user_id |-> "old-u1", aspect_id |-> "id-1-ff",
                     name |-> "old", visibility |-> 1, labels |-> <<>>,
                     file_name |-> "sega1"]},
     tbl_image_aspect |-> {[id |-> "id-1-ff", name |-> "custom"]}]

ServerRows == {[id |-> 1, identifier |-> "divingfish"], [id |-> 2, identifier |-> "LXNS"]}

UsagipassEmpty ==
    [tbl_server |-> ServerRows, tbl_account |-> {}, tbl_rating |-> {}, tbl_preference |-> {}]

UsagipassSeeded ==
    [tbl_server |-> ServerRows,
     tbl_account |-> {[id |-> "old-ac1", user_id |-> "old-u1", server_id |-> 2,
                       credentials |-> "cred-old", enabled |-> FALSE]},
     tbl_rating |-> {[user_id |-> "old-u1", rating |-> 5]},
     tbl_preference |-> {}]

\* a usagipass database whose tbl_server lacks the identifier lxns
UsagipassNoLxns ==
    [UsagipassEmpty EXCEPT !.tbl_server = {[id |-> 1, identifier |-> "divingfish"]}]

UpTargets ==
    { [leporid |-> LeporidEmpty, usagipass |-> UsagipassEmpty],
      [leporid |-> LeporidSeeded, usagipass |-> UsagipassSeeded],
      [leporid |-> LeporidEmpty, usagipass |-> UsagipassNoLxns] }

(***************************************************************************)
(* Explored inputs of run_merge.                                           *)
(***************************************************************************)
\* rows of the source users table, in ORDER BY id order; usernames are unique
MergeUsers ==
    << [id |-> "s1", username |-> "alice", hashed_password |-> "h1", created_at |-> "t-src"],
       [id |-> "s2", username |-> "bob", hashed_password |-> "h2", created_at |-> None],
       [id |-> "s3", username |-> "carol", hashed_password |-> "h3", created_at |-> "t-src"] >>

\* rows of the source images table, in ORDER BY uploaded_at, uuid order
MergeImages ==
    << [uuid |-> "im1", kind |-> "frame", label |-> " L1 ", category |-> "Holiday",
        trace_id |-> "tr1", uploaded_by |-> "s1"],
       [uuid |-> "im2", kind |-> "UNKNOWN", label |-> None, category |-> None,
        trace_id |-> "tr2", uploaded_by |-> "s1"],
       [uuid |-> "im3", kind |-> "FRAME", label |-> None, category |-> " ",
        trace_id |-> "tr3", uploaded_by |-> None],
       [uuid |-> "im4", kind |-> "Mask", label |-> "L4", category |-> None,
        trace_id |-> None, uploaded_by |-> "s9"],
       [uuid |-> "im5", kind |-> "MASK", label |-> " ", category |-> None,
        trace_id |-> "tr5", uploaded_by |-> "s2"] >>

TargetEmpty == [tbl_user |-> {}, tbl_image |-> {}, tbl_image_aspect |-> {}]

\* a target that already holds alice under another id, and a row with the id of s2
TargetSeeded ==
    [tbl_user |-> {[id |-> "old-u1", username |-> "alice", hashed_password |-> "h-old",
                    created_at |-> "t-old"],
                   [id |-> "s2", username |-> "zed", hashed_password |-> "h-zed",
                    created_at |-> "t-old"]},
     tbl_image |-> {[id |-> "im1", user_id |-> "old-u1", aspect_id |-> "id-1-ff",
                     name |-> "old", visibility |-> 1, labels |-> <<>>,
                     original_id |-> "tr0"]},
     tbl_image_aspect |-> {[id |-> "id-1-ff", name |-> "custom"]}]

MergeTargets == {TargetEmpty, TargetSeeded}

AdminIds == {None, "old-u1", "nobody"}

(***************************************************************************)
(* Initial states: one invocation of run_merge or run_merge_up about to    *)
(* start, on databases and a configuration drawn from the explored inputs. *)
(***************************************************************************)
InitMergeUp ==
    /\ variant = "merge_up"
    /\ \E n \in 1..MaxUsers, b \in 1..MaxBatch, d \in BOOLEAN, t \in UpTargets :
       \E p \in [1..n -> DOMAIN Profiles] :
          /\ config = [dry_run |-> d, batch_size |-> b, admin_user_id |-> None]
          /\ db = [source |-> UpSource(p), leporid |-> t.leporid,
                   usagipass |-> t.usagipass]

InitMerge ==
    /\ variant = "merge"
    /\ \E n \in 1..MaxUsers, b \in 1..MaxBatch, d \in BOOLEAN, t \in MergeTargets :
       \E a \in AdminIds :
          /\ config = [dry_run |-> d, batch_size |-> b, admin_user_id |-> a]
          /\ db = [source |-> [users |-> SubSeq(MergeUsers, 1, n), images |-> MergeImages],
                   target |-> t]

\* CopyImageStats()
CopyImageStats == [processed |-> 0, copied |-> 0, skipped_missing |-> 0, skipped_existing |-> 0]

\* no helper is being called on its own
NoCall == [fn |-> "none", done |-> TRUE]

\* copy-img is not running
NoCopy ==
    /\ overwrite = FALSE
    /\ source_dir = <<>>
    /\ target_dir = <<>>
    /\ image_ids = <<>>
    /\ stats = CopyImageStats
    /\ copy_pc = "idle"
    /\ copy_at = 1

Init ==
    /\ InitMergeUp \/ InitMerge
    /\ call = NoCall
    /\ NoCopy
    /\ work = db
    /\ engine = [e \in EndpointSet(variant) |-> "none"]
    /\ conn = [e \in EndpointSet(variant) |-> "none"]
    /\ tx = [e \in EndpointSet(variant) |-> "none"]
    /\ pc = "create"
    /\ k = 1
    /\ err = None
    /\ raised = None
    /\ result = None
    /\ run = 1
    /\ first = None
    /\ i = 1
    /\ j = 1
    /\ summary = MergeSectionResult
    /\ existing = <<>>
    /\ payload = <<>>
    /\ migrated_users = <<>>
    /\ server_ids = <<>>
    /\ results = <<>>
    /\ nuuid = 0
    /\ assigned = {}
    /\ refs = {}
    /\ wrote = <<>>
    /\ failed_at = None
    /\ thrown = None
    /\ dirty = {}
    /\ pre = db

(***************************************************************************)
(* Transaction coordinator: run_merge (merge.py 42-85) and run_merge_up    *)
(* (merge_up.py 153-198).                                                  *)
(***************************************************************************)
E(n) == Endpoints(variant)[n]

N == NumEndpoints(variant)

\* a try block that began with a dependent section
FirstSectionDependent(v) == IF v = "merge" THEN "m_images_init" ELSE "third_parties"

\* first section of the try block
FirstSection(v) == IF v = "merge" THEN "m_start" ELSE "load"

SectionPcs ==
    {"load", "users", "upsert_users", "third_parties", "accounts", "ratings",
     "preferences", "aspects", "images", "m_start", "m_users", "m_images_init",
     "m_images"}

\* leaving the frames of the section functions drops their locals
Unwound ==
    /\ i' = 1
    /\ j' = 1
    /\ summary' = MergeSectionResult
    /\ existing' = <<>>
    /\ payload' = <<>>
    /\ migrated_users' = <<>>
    /\ server_ids' = <<>>
    /\ results' = <<>>
    /\ nuuid' = 0
    /\ assigned' = {}
    /\ refs' = {}
    /\ wrote' = <<>>

\* leaving the with block: the connections opened so far are closed, last first
GoClose(n) ==
    IF n = 0 THEN pc' = "dispose" /\ k' = 1 ELSE pc' = "close" /\ k' = n

\* a handler that went on to the commits instead of rolling back
AfterSectionErrorCommits == "commit"

\* the handler of `except Exception` of the try block around the sections
AfterSectionError == "rollback"

\* an else branch that took no notice of dry_run
AfterSectionsCommits(dry_run) == "commit"

\* the else branch of the try block: rollback when dry_run, commit otherwise
AfterSections(dry_run) == IF dry_run THEN "rollback" ELSE "commit"

\* tx.rollback(): the uncommitted writes of the endpoint are discarded
RolledBack(e) ==
    /\ tx' = [tx EXCEPT ![e] = "rolledback"]
    /\ work' = [work EXCEPT ![e] = db[e]]
    /\ db' = db

\* tx.commit(): the writes of the endpoint become its committed content
Committed(e) ==
    /\ tx' = [tx EXCEPT ![e] = "committed"]
    /\ db' = [db EXCEPT ![e] = work[e]]
    /\ work' = work

\* _create_engine(url) of the k-th endpoint
CreateEngine ==
    /\ pc = "create"
    /\ engine' = [engine EXCEPT ![E(k)] = "created"]
    /\ IF k = N THEN pc' = "connect" /\ k' = 1 ELSE pc' = "create" /\ k' = k + 1
    /\ UNCHANGED <<cfgVars, dbVars, conn, tx, err, raised, result, run, first, pre,
                   locVars, histVars>>
    /\ UNCHANGED <<libVars, copyVars>>

\* create_engine raises (before the try block: nothing is disposed)
CreateEngineFails ==
    /\ pc = "create"
    /\ pc' = "done"
    /\ raised' = "CreateError"
    /\ UNCHANGED <<cfgVars, dbVars, conVars, k, err, result, run, first, pre, locVars, histVars>>
    /\ UNCHANGED <<libVars, copyVars>>

\* engine.connect() of the k-th endpoint, entering the with block
Connect ==
    /\ pc = "connect"
    /\ conn' = [conn EXCEPT ![E(k)] = "open"]
    /\ IF k = N THEN pc' = "begin" /\ k' = 1 ELSE pc' = "connect" /\ k' = k + 1
    /\ UNCHANGED <<cfgVars, dbVars, engine, tx, err, raised, result, run, first, pre,
                   locVars, histVars>>
    /\ UNCHANGED <<libVars, copyVars>>

ConnectFails ==
    /\ pc = "connect"
    /\ err' = "ConnectError"
    /\ GoClose(k - 1)
    /\ UNCHANGED <<cfgVars, dbVars, conVars, raised, result, run, first, pre, locVars, histVars>>
    /\ UNCHANGED <<libVars, copyVars>>

\* conn.begin() of the k-th endpoint
Begin ==
    /\ pc = "begin"
    /\ tx' = [tx EXCEPT ![E(k)] = "active"]
    /\ IF k = N THEN pc' = FirstSection(variant) /\ k' = 1 ELSE pc' = "begin" /\ k' = k + 1
    /\ UNCHANGED <<cfgVars, dbVars, engine, conn, err, raised, result, run, first, pre,
                   locVars, histVars>>
    /\ UNCHANGED <<libVars, copyVars>>

BeginFails ==
    /\ pc = "begin"
    /\ err' = "BeginError"
    /\ GoClose(N)
    /\ UNCHANGED <<cfgVars, dbVars, conVars, raised, result, run, first, pre, locVars, histVars>>
    /\ UNCHANGED <<libVars, copyVars>>

\* a statement of a section raises an error the section does not handle
SectionRaises(e) ==
    /\ err' = e
    /\ failed_at' = pc
    /\ thrown' = e
    /\ dirty' = {x \in EndpointSet(variant) : work[x] # db[x]}
    /\ pc' = AfterSectionError
    /\ k' = 1
    /\ Unwound
    /\ UNCHANGED <<cfgVars, dbVars, conVars, raised, result, run, first, pre>>

SectionFails ==
    /\ pc \in SectionPcs
    /\ SectionRaises("InfraError")
    /\ UNCHANGED <<libVars, copyVars>>

\* the sections returned: else branch of the try block
EndSections ==
    /\ pc = "end"
    /\ pc' = AfterSections(config.dry_run)
    /\ k' = 1
    /\ UNCHANGED <<cfgVars, dbVars, conVars, err, raised, result, run, first, pre,
                   locVars, histVars>>
    /\ UNCHANGED <<libVars, copyVars>>

\* the k-th tx.rollback() of the except handler or of the dry-run branch
Rollback ==
    /\ pc = "rollback"
    /\ RolledBack(RollbackOrder(variant)[k])
    /\ IF k = N THEN GoClose(N) ELSE pc' = "rollback" /\ k' = k + 1
    /\ UNCHANGED <<cfgVars, engine, conn, err, raised, result, run, first, pre, locVars, histVars>>
    /\ UNCHANGED <<libVars, copyVars>>

\* tx.rollback() raises: the error replaces the one in flight, the rest is skipped
RollbackFails ==
    /\ pc = "rollback"
    /\ err' = "RollbackError"
    /\ GoClose(N)
    /\ UNCHANGED <<cfgVars, dbVars, conVars, raised, result, run, first, pre, locVars, histVars>>
    /\ UNCHANGED <<libVars, copyVars>>

\* the k-th tx.commit()
Commit ==
    /\ pc = "commit"
    /\ Committed(CommitOrder(variant)[k])
    /\ IF k = N THEN GoClose(N) ELSE pc' = "commit" /\ k' = k + 1
    /\ UNCHANGED <<cfgVars, engine, conn, err, raised, result, run, first, pre, locVars, histVars>>
    /\ UNCHANGED <<libVars, copyVars>>

CommitFails ==
    /\ pc = "commit"
    /\ err' = "CommitError"
    /\ GoClose(N)
    /\ UNCHANGED <<cfgVars, dbVars, conVars, raised, result, run, first, pre, locVars, histVars>>
    /\ UNCHANGED <<libVars, copyVars>>

\* exit of the with block: Connection.close() of the k-th endpoint, which rolls
\* back the transaction still active on it
Close ==
    /\ pc = "close"
    /\ conn' = [conn EXCEPT ![E(k)] = "closed"]
    /\ IF tx[E(k)] = "active"
       THEN /\ tx' = [tx EXCEPT ![E(k)] = "rolledback"]
            /\ work' = [work EXCEPT ![E(k)] = db[E(k)]]
       ELSE UNCHANGED <<tx, work>>
    /\ GoClose(k - 1)
    /\ UNCHANGED <<cfgVars, db, engine, err, raised, result, run, first, pre, locVars, histVars>>
    /\ UNCHANGED <<libVars, copyVars>>

\* value of the return statement
Returned(v) == results

\* finally block: engine.dispose() of the k-th endpoint; after the last one the
\* error in flight reaches the caller, or the result is returned
Dispose ==
    /\ pc = "dispose"
    /\ engine' = [engine EXCEPT ![E(k)] = "disposed"]
    /\ IF k = N
       THEN /\ pc' = "done"
            /\ k' = 1
            /\ raised' = err
            /\ result' = IF err = None THEN Returned(variant) ELSE None
       ELSE /\ pc' = "dispose"
            /\ k' = k + 1
            /\ UNCHANGED <<raised, result>>
    /\ UNCHANGED <<cfgVars, dbVars, conn, tx, err, run, first, pre, locVars, histVars>>
    /\ UNCHANGED <<libVars, copyVars>>

\* the operator runs the same migration a second time after a committed run
Rerun ==
    /\ pc = "done"
    /\ run = 1
    /\ raised = None
    /\ ~config.dry_run
    /\ run' = 2
    /\ first' = [result |-> result, wrote |-> wrote]
    /\ pre' = db
    /\ work' = db
    /\ engine' = [e \in EndpointSet(variant) |-> "none"]
    /\ conn' = [e \in EndpointSet(variant) |-> "none"]
    /\ tx' = [e \in EndpointSet(variant) |-> "none"]
    /\ pc' = "create"
    /\ k' = 1
    /\ result' = None
    /\ Unwound
    /\ UNCHANGED <<cfgVars, db, err, raised, failed_at, thrown, dirty>>
    /\ UNCHANGED <<libVars, copyVars>>

(***************************************************************************)
(* Pure helpers of transform.py and merge_up.py.                           *)
(***************************************************************************)
\* str.strip() on the strings that occur in the explored inputs
Strip(s) ==
    CASE s = " L1 " -> "L1"
      [] s = " l1 " -> "l1"
      [] s = " Holiday " -> "Holiday"
      [] s = " holiday " -> "holiday"
      [] s = " HOLIDAY " -> "HOLIDAY"
      [] s = " tr1 " -> "tr1"
      [] s = " " -> ""
      [] OTHER -> s

\* truth value of an Optional[str]
Truthy(s) == s # None /\ s # ""

\* `value or ""`
OrEmpty(s) == IF s = None THEN "" ELSE s

\* a lookup of the kind as it is spelled, without upper()
DeriveAsSpelled(kind) ==
    IF OrEmpty(kind) \notin KIND_TO_ASPECT THEN <<>> ELSE <<"id-1-ff">>

\* derive_aspect_id: <<aspect id>>, or <<>> when UnknownAspectError is raised
derive_aspect_id(kind) ==
    LET key == Upper(OrEmpty(kind))
    IN IF key \notin KIND_TO_ASPECT THEN <<>> ELSE <<"id-1-ff">>

\* labels whose category is lower-cased but not trimmed
LabelsUntrimmed(kind, category, workshop) ==
    (IF Truthy(kind) THEN <<Lower(kind)>> ELSE <<>>)
    \o (IF Truthy(category) THEN <<Lower(category)>> ELSE <<>>)
    \o (IF workshop THEN <<"workshop">> ELSE <<>>)

build_image_labels(kind, category, workshop) ==
    (IF Truthy(kind) THEN <<Lower(kind)>> ELSE <<>>)
    \o (IF Truthy(category) /\ Strip(category) # "" THEN <<Lower(Strip(category))>> ELSE <<>>)
    \o (IF workshop THEN <<"workshop">> ELSE <<>>)

\* a name that prefers the trace id to the label
NameTraceFirst(label, trace_id) ==
    IF Truthy(trace_id) /\ Strip(trace_id) # "" THEN Strip(trace_id)
    ELSE IF Truthy(label) /\ Strip(label) # "" THEN Strip(label)
    ELSE ""

build_image_name(label, trace_id) ==
    IF Truthy(label) /\ Strip(label) # "" THEN Strip(label)
    ELSE IF Truthy(trace_id) /\ Strip(trace_id) # "" THEN Strip(trace_id)
    ELSE ""

\* _chunked: the chunks of `sequence`, each of `size` rows but possibly the last
RECURSIVE _chunked(_, _)
_chunked(sequence, size) ==
    IF sequence = <<>> THEN <<>>
    ELSE IF Len(sequence) <= size THEN <<sequence>>
    ELSE <<SubSeq(sequence, 1, size)>> \o _chunked(SubSeq(sequence, size + 1, Len(sequence)), size)

\* first two entries of the hard-coded uuid_mapping table
uuid_mapping ==
    [x \in {"1051f05f", "1a0bbc52"} |-> IF x = "1051f05f" THEN "bce7437d" ELSE "dce699fc"]

\* a resolution that consulted the static table before the lookup
StaticFirst(value, lookup) ==
    IF value \in DOMAIN uuid_mapping THEN uuid_mapping[value]
    ELSE IF value \in DOMAIN lookup THEN lookup[value]
    ELSE value

_resolve_image_reference(value, lookup) ==
    IF value \in DOMAIN lookup THEN lookup[value]
    ELSE IF value \in DOMAIN uuid_mapping THEN uuid_mapping[value]
    ELSE value

\* a selection that kept the last account on the preferred server
LastOnServer(prefer_server, accounts) ==
    LET hits == {x \in 1..Len(accounts) : accounts[x].account_server = prefer_server}
    IN IF hits = {} THEN <<>>
       ELSE <<accounts[CHOOSE x \in hits : \A y \in hits : x >= y]>>

\* _select_primary_account: <<account>>, or <<>> for None
_select_primary_account(prefer_server, accounts) ==
    LET hits == {x \in 1..Len(accounts) : accounts[x].account_server = prefer_server}
    IN IF hits = {} THEN <<>>
       ELSE <<accounts[CHOOSE x \in hits : \A y \in hits : x <= y]>>

\* next((acct for acct in accounts if acct.account_server in SERVER_RULES), None)
FirstSupported(accounts) ==
    LET hits == {x \in 1..Len(accounts) : accounts[x].account_server \in SupportedServers}
    IN IF hits = {} THEN <<>>
       ELSE <<accounts[CHOOSE x \in hits : \A y \in hits : x <= y]>>

(***************************************************************************)
(* SQL statements.                                                         *)
(***************************************************************************)
Conflict(t, r, key) == \A f \in key : t[f] = r[f]

\* INSERT ... ON CONFLICT (key) DO UPDATE SET upd = EXCLUDED.upd, for one row
Upsert(tbl, r, key, upd) ==
    IF \E t \in tbl : Conflict(t, r, key)
    THEN {IF Conflict(t, r, key)
          THEN [f \in DOMAIN t |-> IF f \in upd THEN r[f] ELSE t[f]]
          ELSE t : t \in tbl}
    ELSE tbl \cup {r}

\* conn.execute(statement, rows): the statement is run for each row in order
RECURSIVE ExecuteMany(_, _, _, _)
ExecuteMany(tbl, rows, key, upd) ==
    IF rows = <<>> THEN tbl
    ELSE ExecuteMany(Upsert(tbl, Head(rows), key, upd), Tail(rows), key, upd)

\* _collect_existing_usernames: username -> id of tbl_user
_collect_existing_usernames(tbl) ==
    [key \in {t.username : t \in tbl} |-> (CHOOSE t \in tbl : t.username = key).id]

\* existing keys of _migrate_third_parties: (username, strategy) -> id
ExistingThirdParties(tbl) ==
    [key \in {<<t.username, t.strategy>> : t \in tbl} |->
        (CHOOSE t \in tbl : <<t.username, t.strategy>> = key).id]

\* existing keys of _migrate_accounts: (user_id, server_id) -> id
ExistingAccounts(tbl) ==
    [key \in {<<t.user_id, t.server_id>> : t \in tbl} |->
        (CHOOSE t \in tbl : <<t.user_id, t.server_id>> = key).id]

\* a write that also removes the rows of the source images table
MovedOut(e, name, rows, key, upd) ==
    [work EXCEPT ![e][name] = ExecuteMany(@, rows, key, upd), !.source.images = <<>>]

\* the write of a section's upsert statement on table `name` of endpoint e
Written(e, name, rows, key, upd) ==
    [work EXCEPT ![e][name] = ExecuteMany(@, rows, key, upd)]

\* history of the rows handed to the upsert statement of section `sec`
Logged(sec, rows) ==
    IF sec \in DOMAIN wrote THEN [wrote EXCEPT ![sec] = @ \o rows] ELSE wrote @@ (sec :> rows)

(***************************************************************************)
(* run_merge_up: what _execute_merge_up loads from the source database.    *)
(***************************************************************************)
\* _ensure_datetime: a null timestamp becomes the time of the run
_ensure_datetime(value) == IF value = None THEN "t-now" ELSE value

\* _load_source_users
SourceUsers ==
    [x \in DOMAIN work.source.users |->
        [username |-> work.source.users[x].username,
         prefer_server |-> Upper(OrEmpty(work.source.users[x].prefer_server)),
         created_at |-> _ensure_datetime(work.source.users[x].created_at)]]

\* _load_source_accounts
SourceAccounts ==
    [x \in DOMAIN work.source.user_accounts |->
        [work.source.user_accounts[x] EXCEPT !.account_server = Upper(OrEmpty(@))]]

\* accounts_by_user[username]
accounts_by_user(username) == SelectSeq(SourceAccounts, LAMBDA a : a.username = username)

\* preferences_by_user.get(username): <<preference>> or <<>>, the preference
\* as _load_source_preferences builds it from the row of user_preferences
preferences_by_user(username) ==
    LET hits == {q \in work.source.user_preferences : q.username = username}
        row == CHOOSE q \in hits : TRUE
        or(value, default) ==
            IF value.t = "NoneType" \/ value.v = 0 THEN default ELSE value.v
    IN IF hits = {} THEN <<>>
       ELSE <<[username |-> row.username,
               maimai_version |-> OrEmpty(row.maimai_version),
               simplified_code |-> OrEmpty(row.simplified_code),
               character_name |-> OrEmpty(row.character_name),
               friend_code |-> OrEmpty(row.friend_code),
               display_name |-> OrEmpty(row.display_name),
               dx_rating |-> OrEmpty(row.dx_rating),
               qr_size |-> or(row.qr_size, 15),
               mask_type |-> or(row.mask_type, 0),
               character_id |-> OrEmpty(row.character_id),
               background_id |-> OrEmpty(row.background_id),
               frame_id |-> OrEmpty(row.frame_id),
               passname_id |-> OrEmpty(row.passname_id),
               chara_info_color |-> IF OrEmpty(row.chara_info_color) = "" THEN "#fee37c"
                                    ELSE row.chara_info_color,
               show_date |-> _coerce_bool(row.show_date, TRUE)]>>

\* _load_source_images: WHERE uploaded_by IS NOT NULL
SourceImages == SelectSeq(work.source.images, LAMBDA r : r.uploaded_by # None)

\* _load_server_ids: normalised identifier -> id
LoadServerIds(tbl) ==
    LET norm(r) == Lower(Strip(OrEmpty(r.identifier)))
        rows == {r \in tbl : norm(r) # ""}
    IN [x \in {norm(r) : r \in rows} |-> (CHOOSE r \in rows : norm(r) = x).id]

RequiredServers == {"divingfish", "lxns"}

\* what every action of a section leaves alone
SectionFrame ==
    UNCHANGED <<cfgVars, db, conVars, k, err, raised, result, run, first, pre, failed_at, thrown, dirty>>

\* a map that is left as it was when an id is minted
Forgotten(map, key, id) == map

\* existing[key] = entry_id
Remember(map, key, id) == map @@ (key :> id)

\* payload.clear() after a flush, the payload kept otherwise
AfterFlush(p) == IF Len(p) >= config.batch_size THEN <<>> ELSE p

\* `if len(payload) >= batch_size`
Full(p) == Len(p) >= config.batch_size

\* _execute_merge_up 208-220: load the source rows, the usernames of leporid and
\* the server ids of usagipass
Load ==
    /\ pc = "load"
    /\ RequiredServers \subseteq DOMAIN LoadServerIds(work.usagipass.tbl_server)
    /\ server_ids' = LoadServerIds(work.usagipass.tbl_server)
    /\ existing' = _collect_existing_usernames(work.leporid.tbl_user)
    /\ summary' = MergeSectionResult
    /\ payload' = <<>>
    /\ migrated_users' = <<>>
    /\ i' = 1
    /\ pc' = "users"
    /\ UNCHANGED <<work, j, results, nuuid, assigned, refs, wrote>>
    /\ SectionFrame
    /\ UNCHANGED <<libVars, copyVars>>

\* _load_server_ids raises RuntimeError: a required identifier is missing
LoadMissingServer ==
    /\ pc = "load"
    /\ ~(RequiredServers \subseteq DOMAIN LoadServerIds(work.usagipass.tbl_server))
    /\ SectionRaises("RuntimeError")
    /\ UNCHANGED <<libVars, copyVars>>

(***************************************************************************)
(* run_merge_up: users section.                                            *)
(***************************************************************************)
\* a choice that takes the first supported account whatever server is preferred
PrimaryByLoadOrder(user, accounts) == FirstSupported(accounts)

\* the primary account _migrate_users settles on: <<account>>, or <<>> (user skipped)
PrimaryOf(user, accounts) ==
    LET primary == _select_primary_account(user.prefer_server, accounts)
    IN IF primary = <<>> \/ primary[1].account_server \notin SupportedServers
       THEN FirstSupported(accounts)
       ELSE primary

\* a MigratedUser that kept the derived username in place of the assigned id
MigratedUserByName(user, new_user_id, new_username, primary, accounts) ==
    [source |-> user.username, new_user_id |-> new_username, new_username |-> new_username,
     prefer_server |-> primary.account_server, primary_account |-> primary,
     accounts |-> accounts]

\* MigratedUser(...)
MigratedUser(user, new_user_id, new_username, primary, accounts) ==
    [source |-> user.username, new_user_id |-> new_user_id, new_username |-> new_username,
     prefer_server |-> primary.account_server, primary_account |-> primary,
     accounts |-> accounts]

\* _generate_password_hash(): a fresh random hash at every call
_generate_password_hash(r, n) == "argon2-" \o ToString(r) \o "-" \o ToString(n)

\* one iteration of the loop of _migrate_users
MigrateUsersRow ==
    /\ pc = "users"
    /\ i <= Len(SourceUsers)
    /\ LET user == SourceUsers[i]
           accounts == accounts_by_user(user.username)
           primary == PrimaryOf(user, accounts)
       IN IF accounts = <<>> \/ primary = <<>>
          THEN /\ summary' = Bump(Bump(summary, "processed"), "skipped")
               /\ UNCHANGED <<existing, payload, migrated_users, nuuid, assigned>>
          ELSE LET new_username ==
                       SERVER_RULES[primary[1].account_server].prefix
                           \o primary[1].account_name
                   known == new_username \in DOMAIN existing
                   new_user_id ==
                       IF known THEN existing[new_username] ELSE uuid4(run, nuuid + 1)
               IN /\ summary' = Bump(Bump(summary, "processed"),
                                     IF known THEN "updated" ELSE "inserted")
                  /\ existing' = IF known THEN existing
                                 ELSE Remember(existing, new_username, new_user_id)
                  /\ nuuid' = IF known THEN nuuid ELSE nuuid + 1
                  /\ payload' = Append(payload,
                        [id |-> new_user_id, username |-> new_username,
                         password |-> _generate_password_hash(run, i), email |-> "",
                         created_at |-> user.created_at])
                  /\ migrated_users' = Append(migrated_users,
                        MigratedUser(user, new_user_id, new_username, primary[1], accounts))
                  /\ assigned' = assigned \cup
                        {[section |-> "users", key |-> <<new_username, "">>,
                          id |-> new_user_id,
                          decision |-> IF known THEN "updated" ELSE "inserted",
                          held |-> IF known THEN existing[new_username] ELSE None]}
    /\ i' = i + 1
    /\ UNCHANGED <<pc, work, j, server_ids, results, refs, wrote>>
    /\ SectionFrame
    /\ UNCHANGED <<libVars, copyVars>>

\* _migrate_users returns
MigrateUsersDone ==
    /\ pc = "users"
    /\ i > Len(SourceUsers)
    /\ results' = results @@ ("users" :> summary)
    /\ pc' = "upsert_users"
    /\ i' = 1
    /\ UNCHANGED <<work, j, summary, existing, payload, migrated_users, server_ids, nuuid,
                   assigned, refs, wrote>>
    /\ SectionFrame
    /\ UNCHANGED <<libVars, copyVars>>

\* _upsert_leporid_users: the statement of the i-th chunk of the payload
UpsertLeporidUsers ==
    /\ pc = "upsert_users"
    /\ i <= Len(_chunked(payload, config.batch_size))
    /\ LET chunk == _chunked(payload, config.batch_size)[i]
       IN /\ work' = Written("leporid", "tbl_user", chunk, {"id"},
                             {"username", "password", "email"})
          /\ wrote' = Logged("users", chunk)
    /\ i' = i + 1
    /\ UNCHANGED <<pc, j, summary, existing, payload, migrated_users, server_ids, results,
                   nuuid, assigned, refs>>
    /\ SectionFrame
    /\ UNCHANGED <<libVars, copyVars>>

\* _upsert_leporid_users returns; _migrate_third_parties reads its existing keys
UpsertLeporidUsersDone ==
    /\ pc = "upsert_users"
    /\ i > Len(_chunked(payload, config.batch_size))
    /\ pc' = "third_parties"
    /\ i' = 1
    /\ j' = 1
    /\ summary' = MergeSectionResult
    /\ payload' = <<>>
    /\ existing' = ExistingThirdParties(work.leporid.tbl_user_third_party)
    /\ UNCHANGED <<work, migrated_users, server_ids, results, nuuid, assigned, refs, wrote>>
    /\ SectionFrame
    /\ UNCHANGED <<libVars, copyVars>>

(***************************************************************************)
(* run_merge_up: third-party links and accounts, one step per account of a *)
(* migrated user.                                                          *)
(***************************************************************************)
\* a position that stays on the user it is on
SameUser == i

\* the position after account j of migrated user i
NextI == IF j < Len(migrated_users[i].accounts) THEN i ELSE i + 1

NextJ == IF j < Len(migrated_users[i].accounts) THEN j + 1 ELSE 1

ThirdPartyRow ==
    /\ pc = "third_parties"
    /\ i <= Len(migrated_users)
    /\ LET user == migrated_users[i]
           account == user.accounts[j]
       IN IF account.account_server \notin SupportedServers
          THEN UNCHANGED <<work, summary, existing, payload, nuuid, assigned, refs, wrote>>
          ELSE LET rule == SERVER_RULES[account.account_server]
                   key == <<account.account_name, rule.strategy>>
                   known == key \in DOMAIN existing
                   entry_id == IF known THEN existing[key] ELSE uuid4(run, nuuid + 1)
                   entry == [id |-> entry_id, user_id |-> user.new_user_id,
                             username |-> account.account_name,
                             strategy |-> rule.strategy]
                   p == Append(payload, entry)
               IN /\ summary' = Bump(Bump(summary, "processed"),
                                     IF known THEN "updated" ELSE "inserted")
                  /\ existing' = IF known THEN existing ELSE Remember(existing, key, entry_id)
                  /\ nuuid' = IF known THEN nuuid ELSE nuuid + 1
                  /\ payload' = AfterFlush(p)
                  /\ work' = IF Full(p)
                             THEN Written("leporid", "tbl_user_third_party", p, {"id"},
                                          {"user_id", "username", "strategy"})
                             ELSE work
                  /\ wrote' = IF Full(p) THEN Logged("third_parties", p) ELSE wrote
                  /\ assigned' = assigned \cup
                        {[section |-> "third_parties",
                          key |-> <<account.account_name, ToString(rule.strategy)>>,
                          id |-> entry_id,
                          decision |-> IF known THEN "updated" ELSE "inserted",
                          held |-> IF known THEN existing[key] ELSE None]}
                  /\ refs' = refs \cup
                        {[section |-> "third_parties", source |-> user.source,
                          user_id |-> entry.user_id]}
    /\ i' = NextI
    /\ j' = NextJ
    /\ UNCHANGED <<pc, migrated_users, server_ids, results>>
    /\ SectionFrame
    /\ UNCHANGED <<libVars, copyVars>>

\* final flush of _migrate_third_parties; _migrate_accounts reads its existing keys
ThirdPartyDone ==
    /\ pc = "third_parties"
    /\ i > Len(migrated_users)
    /\ work' = IF payload # <<>>
               THEN Written("leporid", "tbl_user_third_party", payload, {"id"},
                            {"user_id", "username", "strategy"})
               ELSE work
    /\ wrote' = IF payload # <<>> THEN Logged("third_parties", payload) ELSE wrote
    /\ results' = results @@ ("third_parties" :> summary)
    /\ pc' = "accounts"
    /\ i' = 1
    /\ j' = 1
    /\ summary' = MergeSectionResult
    /\ payload' = <<>>
    /\ existing' = ExistingAccounts(work.usagipass.tbl_account)
    /\ UNCHANGED <<migrated_users, server_ids, nuuid, assigned, refs>>
    /\ SectionFrame
    /\ UNCHANGED <<libVars, copyVars>>

AccountRow ==
    /\ pc = "accounts"
    /\ i <= Len(migrated_users)
    /\ LET user == migrated_users[i]
           account == user.accounts[j]
           supported == account.account_server \in SupportedServers
           identifier == SERVER_RULES[account.account_server].identifier
       IN IF ~supported \/ identifier \notin DOMAIN server_ids
          THEN UNCHANGED <<work, summary, existing, payload, nuuid, assigned, refs, wrote>>
          ELSE LET server_id == server_ids[identifier]
                   key == <<user.new_user_id, server_id>>
                   known == key \in DOMAIN existing
                   entry_id == IF known THEN existing[key] ELSE uuid4(run, nuuid + 1)
                   entry == [id |-> entry_id, user_id |-> user.new_user_id,
                             server_id |-> server_id,
                             credentials |-> account.account_password, enabled |-> TRUE]
                   p == Append(payload, entry)
               IN /\ summary' = Bump(Bump(summary, "processed"),
                                     IF known THEN "updated" ELSE "inserted")
                  /\ existing' = IF known THEN existing ELSE Remember(existing, key, entry_id)
                  /\ nuuid' = IF known THEN nuuid ELSE nuuid + 1
                  /\ assigned' = assigned \cup
                        {[section |-> "accounts",
                          key |-> <<user.new_user_id, ToString(server_id)>>,
                          id |-> entry_id,
                          decision |-> IF known THEN "updated" ELSE "inserted",
                          held |-> IF known THEN existing[key] ELSE None]}
                  /\ IF account.account_server = "DIVING_FISH"
                     THEN UNCHANGED <<work, payload, refs, wrote>>
                     ELSE /\ payload' = AfterFlush(p)
                          /\ work' = IF Full(p)
                                     THEN Written("usagipass", "tbl_account", p, {"id"},
                                            {"user_id", "server_id", "credentials", "enabled"})
                                     ELSE work
                          /\ wrote' = IF Full(p) THEN Logged("accounts", p) ELSE wrote
                          /\ refs' = refs \cup
                                {[section |-> "accounts", source |-> user.source,
                                  user_id |-> entry.user_id]}
    /\ i' = NextI
    /\ j' = NextJ
    /\ UNCHANGED <<pc, migrated_users, server_ids, results>>
    /\ SectionFrame
    /\ UNCHANGED <<libVars, copyVars>>

\* final flush of _migrate_accounts; _migrate_ratings reads its existing user ids
AccountDone ==
    /\ pc = "accounts"
    /\ i > Len(migrated_users)
    /\ work' = IF payload # <<>>
               THEN Written("usagipass", "tbl_account", payload, {"id"},
                            {"user_id", "server_id", "credentials", "enabled"})
               ELSE work
    /\ wrote' = IF payload # <<>> THEN Logged("accounts", payload) ELSE wrote
    /\ results' = results @@ ("accounts" :> summary)
    /\ pc' = "ratings"
    /\ i' = 1
    /\ j' = 1
    /\ summary' = MergeSectionResult
    /\ payload' = <<>>
    /\ existing' = {t.user_id : t \in work.usagipass.tbl_rating}
    /\ UNCHANGED <<migrated_users, server_ids, nuuid, assigned, refs>>
    /\ SectionFrame
    /\ UNCHANGED <<libVars, copyVars>>

(***************************************************************************)
(* run_merge_up: ratings and preferences, one step per migrated user.      *)
(***************************************************************************)
\* a rating row that takes the rating of the user's first account
RatingOfFirstAccount(user) ==
    [user_id |-> user.new_user_id, rating |-> user.accounts[1].player_rating]

\* the row _migrate_ratings appends for a migrated user
RatingEntry(user) ==
    [user_id |-> user.new_user_id, rating |-> user.primary_account.player_rating]

RatingRow ==
    /\ pc = "ratings"
    /\ i <= Len(migrated_users)
    /\ LET user == migrated_users[i]
           entry == RatingEntry(user)
           p == Append(payload, entry)
           known == user.new_user_id \in existing
       IN /\ summary' = Bump(Bump(summary, "processed"),
                             IF known THEN "updated" ELSE "inserted")
          /\ existing' = existing \cup {user.new_user_id}
          /\ payload' = AfterFlush(p)
          /\ work' = IF Full(p)
                     THEN Written("usagipass", "tbl_rating", p, {"user_id"}, {"rating"})
                     ELSE work
          /\ wrote' = IF Full(p) THEN Logged("ratings", p) ELSE wrote
          /\ refs' = refs \cup {[section |-> "ratings", source |-> user.source,
                                 user_id |-> entry.user_id]}
    /\ i' = i + 1
    /\ UNCHANGED <<pc, j, migrated_users, server_ids, results, nuuid, assigned>>
    /\ SectionFrame
    /\ UNCHANGED <<libVars, copyVars>>

\* final flush of _migrate_ratings; _migrate_preferences reads its existing user ids
RatingDone ==
    /\ pc = "ratings"
    /\ i > Len(migrated_users)
    /\ work' = IF payload # <<>>
               THEN Written("usagipass", "tbl_rating", payload, {"user_id"}, {"rating"})
               ELSE work
    /\ wrote' = IF payload # <<>> THEN Logged("ratings", payload) ELSE wrote
    /\ results' = results @@ ("ratings" :> summary)
    /\ pc' = "preferences"
    /\ i' = 1
    /\ summary' = MergeSectionResult
    /\ payload' = <<>>
    /\ existing' = {t.user_id : t \in work.usagipass.tbl_preference}
    /\ UNCHANGED <<j, migrated_users, server_ids, nuuid, assigned, refs>>
    /\ SectionFrame
    /\ UNCHANGED <<libVars, copyVars>>

\* _build_image_uuid_lookup: source image id -> id of the leporid image whose
\* file_name is the source image's sega_name
_build_image_uuid_lookup ==
    LET named == {r \in Range(work.source.images) : Truthy(r.sega_name)}
        filed == {t \in work.leporid.tbl_image : Truthy(t.file_name)}
        hit(r) == {t \in filed : t.file_name = r.sega_name}
    IN [x \in {r.id : r \in {q \in named : hit(q) # {}}} |->
           (CHOOSE t \in filed :
               t.file_name = (CHOOSE r \in named : r.id = x).sega_name).id]

\* columns _upsert_preferences sets on conflict
PreferenceColumns ==
    {"maimai_version", "simplified_code", "character_name", "friend_code",
     "display_name", "dx_rating", "qr_size", "mask_type", "player_info_color",
     "chara_info_color", "show_dx_rating", "show_display_name", "show_friend_code",
     "show_date", "character_id", "mask_id", "background_id", "frame_id", "passname_id"}

\* the parameters the statement of _upsert_preferences binds, for each row
PreferenceParameters(rows) ==
    [x \in DOMAIN rows |-> [f \in PreferenceColumns \cup {"user_id"} |-> rows[x][f]]]

\* a stand-in preference whose size and date flag were left at zero and false
ZeroedPreference(username) ==
    [username |-> username, maimai_version |-> "", simplified_code |-> "",
     character_name |-> "", friend_code |-> "", display_name |-> "", dx_rating |-> "",
     qr_size |-> 0, mask_type |-> 0, character_id |-> "", background_id |-> "",
     frame_id |-> "", passname_id |-> "", chara_info_color |-> "#fee37c",
     show_date |-> FALSE]

\* SourcePreference(...) used when the user has no preference row
DefaultPreference(username) ==
    [username |-> username, maimai_version |-> "", simplified_code |-> "",
     character_name |-> "", friend_code |-> "", display_name |-> "", dx_rating |-> "",
     qr_size |-> 15, mask_type |-> 0, character_id |-> "", background_id |-> "",
     frame_id |-> "", passname_id |-> "", chara_info_color |-> "#fee37c",
     show_date |-> TRUE]

_build_preference_row(user, pref, image_uuid_lookup) ==
    LET q == IF pref = <<>> THEN DefaultPreference(user.source) ELSE pref[1]
    IN [user_id |-> user.new_user_id,
        maimai_version |-> q.maimai_version,
        simplified_code |-> q.simplified_code,
        character_name |-> q.character_name,
        friend_code |-> q.friend_code,
        display_name |-> q.display_name,
        dx_rating |-> q.dx_rating,
        qr_size |-> q.qr_size,
        mask_type |-> q.mask_type,
        player_info_color |-> "#ffffff",
        chara_info_color |-> IF q.chara_info_color = "" THEN "#fee37c"
                             ELSE q.chara_info_color,
        show_dx_rating |-> TRUE,
        show_display_name |-> TRUE,
        show_friend_code |-> TRUE,
        enable_mask |-> FALSE,
        show_date |-> q.show_date,
        character_id |-> _resolve_image_reference(q.character_id, image_uuid_lookup),
        mask_id |-> "",
        background_id |-> _resolve_image_reference(q.background_id, image_uuid_lookup),
        frame_id |-> _resolve_image_reference(q.frame_id, image_uuid_lookup),
        passname_id |-> _resolve_image_reference(q.passname_id, image_uuid_lookup)]

PreferenceRow ==
    /\ pc = "preferences"
    /\ i <= Len(migrated_users)
    /\ LET user == migrated_users[i]
           entry == _build_preference_row(user, preferences_by_user(user.source),
                                          _build_image_uuid_lookup)
           p == Append(payload, entry)
           known == user.new_user_id \in existing
       IN /\ summary' = Bump(Bump(summary, "processed"),
                             IF known THEN "updated" ELSE "inserted")
          /\ existing' = existing \cup {user.new_user_id}
          /\ payload' = AfterFlush(p)
          /\ work' = IF Full(p)
                     THEN Written("usagipass", "tbl_preference", PreferenceParameters(p),
                                  {"user_id"}, PreferenceColumns)
                     ELSE work
          /\ wrote' = IF Full(p) THEN Logged("preferences", p) ELSE wrote
          /\ refs' = refs \cup {[section |-> "preferences", source |-> user.source,
                                 user_id |-> entry.user_id]}
    /\ i' = i + 1
    /\ UNCHANGED <<pc, j, migrated_users, server_ids, results, nuuid, assigned>>
    /\ SectionFrame
    /\ UNCHANGED <<libVars, copyVars>>

\* final flush of _migrate_preferences
PreferenceDone ==
    /\ pc = "preferences"
    /\ i > Len(migrated_users)
    /\ work' = IF payload # <<>>
               THEN Written("usagipass", "tbl_preference", PreferenceParameters(payload),
                            {"user_id"}, PreferenceColumns)
               ELSE work
    /\ wrote' = IF payload # <<>> THEN Logged("preferences", payload) ELSE wrote
    /\ results' = results @@ ("preferences" :> summary)
    /\ pc' = "aspects"
    /\ i' = 1
    /\ summary' = MergeSectionResult
    /\ payload' = <<>>
    /\ existing' = {}
    /\ UNCHANGED <<j, migrated_users, server_ids, nuuid, assigned, refs>>
    /\ SectionFrame
    /\ UNCHANGED <<libVars, copyVars>>

(***************************************************************************)
(* Images of run_merge_up.                                                 *)
(***************************************************************************)
\* an ensure_required_aspects that inserted nothing
AspectsLeftOut(tbl) == tbl

\* ensure_required_aspects (merge.py): INSERT ... ON CONFLICT (id) DO NOTHING of the
\* required aspects that the SELECT did not find
ensure_required_aspects(tbl) ==
    LET found == {t.id : t \in {q \in tbl : q.id = "id-1-ff"}}
        missing == IF "id-1-ff" \notin found THEN {DefaultAspect} ELSE {}
    IN tbl \cup {m \in missing : \A t \in tbl : t.id # m.id}

\* ensure_required_aspects(leporid_conn); _migrate_images reads the existing image ids
EnsureAspects ==
    /\ pc = "aspects"
    /\ work' = [work EXCEPT !.leporid.tbl_image_aspect = ensure_required_aspects(@)]
    /\ existing' = {t.id : t \in work.leporid.tbl_image}
    /\ pc' = "images"
    /\ i' = 1
    /\ UNCHANGED <<j, summary, payload, migrated_users, server_ids, results, nuuid,
                   assigned, refs, wrote>>
    /\ SectionFrame
    /\ UNCHANGED <<libVars, copyVars>>

\* a lookup that finds no migrated user
NotMigrated(username) == <<>>

\* migrated_users.get(username) of the dict {user.source.username: user}
MigratedBySource(username) ==
    LET hits == {x \in 1..Len(migrated_users) : migrated_users[x].source = username}
    IN IF hits = {} THEN <<>>
       ELSE <<migrated_users[CHOOSE x \in hits : \A y \in hits : y <= x]>>

_adapt_image_row_for_up(row, aspect_id, user_id, workshop) ==
    [id |-> row.id, user_id |-> user_id, aspect_id |-> aspect_id,
     name |-> build_image_name(row.name, ""), visibility |-> 0,
     labels |-> build_image_labels(row.kind, row.sega_name, workshop),
     file_name |-> None]

UpImageColumns == {"user_id", "aspect_id", "name", "visibility", "labels", "file_name"}

ImageRow ==
    /\ pc = "images"
    /\ i <= Len(SourceImages)
    /\ LET row == SourceImages[i]
           user == MigratedBySource(row.uploaded_by)
           aspect == derive_aspect_id(row.kind)
       IN IF user = <<>> \/ aspect = <<>>
          THEN /\ summary' = Bump(Bump(summary, "processed"), "skipped")
               /\ UNCHANGED <<work, existing, payload, refs, wrote, assigned>>
          ELSE LET entry == _adapt_image_row_for_up(row, aspect[1], user[1].new_user_id,
                                                    row.uploaded_by # None)
                   p == Append(payload, entry)
                   known == row.id \in existing
               IN /\ summary' = Bump(Bump(summary, "processed"),
                                     IF known THEN "updated" ELSE "inserted")
                  /\ existing' = existing \cup {row.id}
                  /\ payload' = AfterFlush(p)
                  /\ work' = IF Full(p)
                             THEN Written("leporid", "tbl_image", p, {"id"}, UpImageColumns)
                             ELSE work
                  /\ wrote' = IF Full(p) THEN Logged("images", p) ELSE wrote
                  /\ refs' = refs \cup {[section |-> "images", source |-> row.uploaded_by,
                                         user_id |-> entry.user_id]}
                  /\ assigned' = assigned \cup
                        {[section |-> "images", key |-> <<row.id, "">>, id |-> entry.id,
                          decision |-> IF known THEN "updated" ELSE "inserted",
                          held |-> IF known THEN row.id ELSE None]}
    /\ i' = i + 1
    /\ UNCHANGED <<pc, j, migrated_users, server_ids, results, nuuid>>
    /\ SectionFrame
    /\ UNCHANGED <<libVars, copyVars>>

\* final flush of _migrate_images; _execute_merge_up returns the MergeUpResult
ImageDone ==
    /\ pc = "images"
    /\ i > Len(SourceImages)
    /\ work' = IF payload # <<>>
               THEN Written("leporid", "tbl_image", payload, {"id"}, UpImageColumns)
               ELSE work
    /\ wrote' = IF payload # <<>> THEN Logged("images", payload) ELSE wrote
    /\ results' = results @@ ("images" :> summary)
    /\ pc' = "end"
    /\ payload' = <<>>
    /\ UNCHANGED <<i, j, summary, existing, migrated_users, server_ids, nuuid, assigned, refs>>
    /\ SectionFrame
    /\ UNCHANGED <<libVars, copyVars>>

(***************************************************************************)
(* run_merge: users section (merge_users, _adapt_user_row, _upsert_users). *)
(***************************************************************************)
\* _collect_existing_ids
_collect_existing_ids(tbl) == {t.id : t \in tbl}

\* _adapt_user_row: the target row of a source user, under a new uuid4 id
_adapt_user_row(row, id) ==
    [id |-> id, username |-> row.username, hashed_password |-> row.hashed_password,
     created_at |-> _ensure_datetime(row.created_at)]

\* an _upsert_users that kept every row of the payload
Unfiltered(tbl, rows) == rows

\* the rows of the payload that _upsert_users keeps: those whose username is not
\* held in tbl_user by another id
Filtered(tbl, rows) ==
    LET existing_by_name == _collect_existing_usernames(tbl)
        taken(entry) == /\ entry.username \in DOMAIN existing_by_name
                        /\ existing_by_name[entry.username] # ""
                        /\ existing_by_name[entry.username] # entry.id
    IN SelectSeq(rows, LAMBDA entry : entry.username = None \/ ~taken(entry))

\* _upsert_users: SELECT username, id FROM tbl_user, then the upsert of the kept rows
_upsert_users(tbl, rows) ==
    ExecuteMany(tbl, Filtered(tbl, rows), {"id"}, {"username", "hashed_password"})

\* merge_users starts: the ids of tbl_user are collected
MergeUsersStart ==
    /\ pc = "m_start"
    /\ existing' = _collect_existing_ids(work.target.tbl_user)
    /\ summary' = MergeSectionResult
    /\ payload' = <<>>
    /\ i' = 1
    /\ pc' = "m_users"
    /\ UNCHANGED <<work, j, migrated_users, server_ids, results, nuuid, assigned, refs, wrote>>
    /\ SectionFrame
    /\ UNCHANGED <<libVars, copyVars>>

\* one iteration of the loop of merge_users
MergeUsersRow ==
    /\ pc = "m_users"
    /\ i <= Len(work.source.users)
    /\ LET row == work.source.users[i]
           entry == _adapt_user_row(row, uuid4(run, nuuid + 1))
           known == row.id \in existing
           p == Append(payload, entry)
       IN /\ summary' = Bump(Bump(summary, "processed"),
                             IF known THEN "updated" ELSE "inserted")
          /\ existing' = existing \cup {row.id}
          /\ nuuid' = nuuid + 1
          /\ payload' = AfterFlush(p)
          /\ work' = IF Full(p)
                     THEN [work EXCEPT !.target.tbl_user = _upsert_users(@, p)]
                     ELSE work
          /\ wrote' = IF Full(p)
                      THEN Logged("users", Filtered(work.target.tbl_user, p))
                      ELSE wrote
          /\ assigned' = assigned \cup
                {[section |-> "users", key |-> <<row.id, "">>, id |-> entry.id,
                  decision |-> IF known THEN "updated" ELSE "inserted",
                  held |-> IF known THEN row.id ELSE None]}
    /\ i' = i + 1
    /\ UNCHANGED <<pc, j, migrated_users, server_ids, results, refs>>
    /\ SectionFrame
    /\ UNCHANGED <<libVars, copyVars>>

\* final flush of merge_users
MergeUsersDone ==
    /\ pc = "m_users"
    /\ i > Len(work.source.users)
    /\ work' = IF payload # <<>>
               THEN [work EXCEPT !.target.tbl_user = _upsert_users(@, payload)]
               ELSE work
    /\ wrote' = IF payload # <<>>
                THEN Logged("users", Filtered(work.target.tbl_user, payload))
                ELSE wrote
    /\ results' = results @@ ("users" :> summary)
    /\ pc' = "m_images_init"
    /\ payload' = <<>>
    /\ UNCHANGED <<i, j, summary, existing, migrated_users, server_ids, nuuid, assigned, refs>>
    /\ SectionFrame
    /\ UNCHANGED <<libVars, copyVars>>

(***************************************************************************)
(* run_merge: images section (merge_images, _adapt_image_row).             *)
(***************************************************************************)
\* source_id_to_username.get(src_uid): <<username>> or <<>>
source_id_to_username(src_uid) ==
    LET hits == {u \in Range(work.source.users) : u.id = src_uid}
    IN IF hits = {} THEN <<>> ELSE <<(CHOOSE u \in hits : TRUE).username>>

\* a lookup that answers with the username itself
UsernameAsId(username) == <<username>>

\* target_username_to_id.get(username): <<id>> or <<>>
target_username_to_id(username) ==
    LET hits == {t \in work.target.tbl_user : t.username = username}
    IN IF hits = {} THEN <<>> ELSE <<(CHOOSE t \in hits : TRUE).id>>

\* known_user_ids
known_user_ids == {t.id : t \in work.target.tbl_user}

\* a merge_images that did not check admin_user_id
AdminUnchecked == TRUE

AdminKnown == config.admin_user_id = None \/ config.admin_user_id \in known_user_ids

\* merge_images 202-221: the default aspect is ensured, the lookups are built and
\* the admin user id is validated
MergeImagesStart ==
    /\ pc = "m_images_init"
    /\ AdminKnown
    /\ work' = [work EXCEPT !.target.tbl_image_aspect = ensure_required_aspects(@)]
    /\ existing' = _collect_existing_ids(work.target.tbl_image)
    /\ summary' = MergeSectionResult
    /\ payload' = <<>>
    /\ i' = 1
    /\ pc' = "m_images"
    /\ UNCHANGED <<j, migrated_users, server_ids, results, nuuid, assigned, refs, wrote>>
    /\ SectionFrame
    /\ UNCHANGED <<libVars, copyVars>>

\* merge_images raises ValueError: admin_user_id is not an id of tbl_user; the
\* default aspect has been written by then
MergeImagesAdminMissing ==
    /\ pc = "m_images_init"
    /\ ~AdminKnown
    /\ err' = "ValueError"
    /\ failed_at' = pc
    /\ thrown' = "ValueError"
    /\ dirty' = {x \in EndpointSet(variant) :
                   [work EXCEPT !.target.tbl_image_aspect = ensure_required_aspects(@)][x]
                       # db[x]}
    /\ work' = [work EXCEPT !.target.tbl_image_aspect = ensure_required_aspects(@)]
    /\ pc' = AfterSectionError
    /\ k' = 1
    /\ Unwound
    /\ UNCHANGED <<cfgVars, db, conVars, raised, result, run, first, pre>>
    /\ UNCHANGED <<libVars, copyVars>>

\* an image row that is labelled as a workshop image whoever it is attributed to
LabelledWorkshop(row, aspect_id, user_id, visibility, workshop) ==
    [id |-> row.uuid, user_id |-> user_id, aspect_id |-> aspect_id,
     name |-> build_image_name(row.label, row.trace_id), visibility |-> visibility,
     labels |-> build_image_labels(row.kind, row.category, TRUE),
     original_id |-> row.trace_id]

_adapt_image_row(row, aspect_id, user_id, visibility, workshop) ==
    [id |-> row.uuid, user_id |-> user_id, aspect_id |-> aspect_id,
     name |-> build_image_name(row.label, row.trace_id), visibility |-> visibility,
     labels |-> build_image_labels(row.kind, row.category, workshop),
     original_id |-> row.trace_id]

MergeImageColumns == {"user_id", "aspect_id", "name", "visibility", "labels", "original_id"}

\* the target user of an image row: <<user_id, visibility>>, or <<>> when the row
\* is skipped
ImageOwner(row) ==
    IF row.uploaded_by = None
    THEN IF config.admin_user_id = None THEN <<>> ELSE <<config.admin_user_id, 1>>
    ELSE LET username == source_id_to_username(row.uploaded_by)
         IN IF username = <<>> THEN <<>>
            ELSE IF target_username_to_id(username[1]) = <<>> THEN <<>>
            ELSE <<target_username_to_id(username[1])[1], 0>>

\* one iteration of the loop of merge_images
MergeImagesRow ==
    /\ pc = "m_images"
    /\ i <= Len(work.source.images)
    /\ LET row == work.source.images[i]
           owner == ImageOwner(row)
           aspect == derive_aspect_id(row.kind)
       IN IF owner = <<>> \/ aspect = <<>>
          THEN /\ summary' = Bump(Bump(summary, "processed"), "skipped")
               /\ UNCHANGED <<work, existing, payload, refs, wrote, assigned>>
          ELSE LET entry == _adapt_image_row(row, aspect[1], owner[1], owner[2],
                                             row.uploaded_by # None)
                   p == Append(payload, entry)
                   known == row.uuid \in existing
               IN /\ summary' = Bump(Bump(summary, "processed"),
                                     IF known THEN "updated" ELSE "inserted")
                  /\ existing' = existing \cup {row.uuid}
                  /\ payload' = AfterFlush(p)
                  /\ work' = IF Full(p)
                             THEN Written("target", "tbl_image", p, {"id"}, MergeImageColumns)
                             ELSE work
                  /\ wrote' = IF Full(p) THEN Logged("images", p) ELSE wrote
                  /\ refs' = refs \cup {[section |-> "images", source |-> row.uploaded_by,
                                         user_id |-> entry.user_id]}
                  /\ assigned' = assigned \cup
                        {[section |-> "images", key |-> <<row.uuid, "">>, id |-> entry.id,
                          decision |-> IF known THEN "updated" ELSE "inserted",
                          held |-> IF known THEN row.uuid ELSE None]}
    /\ i' = i + 1
    /\ UNCHANGED <<pc, j, migrated_users, server_ids, results, nuuid>>
    /\ SectionFrame
    /\ UNCHANGED <<libVars, copyVars>>

\* final flush of merge_images; run_merge has both summaries
MergeImagesDone ==
    /\ pc = "m_images"
    /\ i > Len(work.source.images)
    /\ work' = IF payload # <<>>
               THEN Written("target", "tbl_image", payload, {"id"}, MergeImageColumns)
               ELSE work
    /\ wrote' = IF payload # <<>> THEN Logged("images", payload) ELSE wrote
    /\ results' = results @@ ("images" :> summary)
    /\ pc' = "end"
    /\ payload' = <<>>
    /\ UNCHANGED <<i, j, summary, existing, migrated_users, server_ids, nuuid, assigned, refs>>
    /\ SectionFrame
    /\ UNCHANGED <<libVars, copyVars>>

(***************************************************************************)
(* Specification.                                                          *)
(***************************************************************************)
Next ==
    \/ CreateEngine \/ CreateEngineFails
    \/ Connect \/ ConnectFails
    \/ Begin \/ BeginFails
    \/ SectionFails
    \/ Load \/ LoadMissingServer
    \/ MigrateUsersRow \/ MigrateUsersDone
    \/ UpsertLeporidUsers \/ UpsertLeporidUsersDone
    \/ ThirdPartyRow \/ ThirdPartyDone
    \/ AccountRow \/ AccountDone
    \/ RatingRow \/ RatingDone
    \/ PreferenceRow \/ PreferenceDone
    \/ EnsureAspects
    \/ ImageRow \/ ImageDone
    \/ MergeUsersStart \/ MergeUsersRow \/ MergeUsersDone
    \/ MergeImagesStart \/ MergeImagesAdminMissing
    \/ MergeImagesRow \/ MergeImagesDone
    \/ EndSections
    \/ Rollback \/ RollbackFails
    \/ Commit \/ CommitFails
    \/ Close
    \/ Dispose
    \/ Rerun

Spec == Init /\ [][Next]_vars

\* the run is one thread of control: while a step can be taken, one is taken
FairSpec == Spec /\ WF_vars(Next)

(***************************************************************************)
(* The helper functions of transform.py and merge_up.py, each called on    *)
(* its own with arguments drawn from the sets below.                       *)
(***************************************************************************)
progVars == <<cfgVars, dbVars, conVars, pc, k, err, raised, result, run, first, pre,
              locVars, histVars>>

\* neither run_merge nor run_merge_up is running
NoRun ==
    /\ variant = "none"
    /\ config = [dry_run |-> TRUE, batch_size |-> 1, admin_user_id |-> None]
    /\ db = <<>>
    /\ work = <<>>
    /\ engine = <<>>
    /\ conn = <<>>
    /\ tx = <<>>
    /\ pc = "idle"
    /\ k = 1
    /\ err = None
    /\ raised = None
    /\ result = None
    /\ run = 1
    /\ first = None
    /\ pre = <<>>
    /\ i = 1
    /\ j = 1
    /\ summary = MergeSectionResult
    /\ existing = <<>>
    /\ payload = <<>>
    /\ migrated_users = <<>>
    /\ server_ids = <<>>
    /\ results = <<>>
    /\ nuuid = 0
    /\ assigned = {}
    /\ refs = {}
    /\ wrote = <<>>
    /\ failed_at = None
    /\ thrown = None
    /\ dirty = {}

\* longest sequence handed to _chunked, and largest chunk size
MaxRows == 4
MaxSize == 3

\* the five kinds in upper, lower and mixed case
Kinds ==
    {"BACKGROUND", "background", "Background", "FRAME", "frame", "Frame",
     "CHARACTER", "character", "Character", "MASK", "mask", "Mask",
     "LABEL", "label", "Label"}

\* the calls that are made, before the function has run
InitCalls ==
    \/ \E x \in Kinds \cup {"UNKNOWN", "unknown", "FRAMES", "", None} :
          call = [fn |-> "derive_aspect_id", done |-> FALSE, kind |-> x]
    \/ \E x \in {"FRAME", "MASK", "Mask", "", None},
          c \in {"Holiday", " Holiday ", " ", "", None}, w \in BOOLEAN :
          call = [fn |-> "build_image_labels", done |-> FALSE, kind |-> x,
                  category |-> c, workshop |-> w]
    \/ \E l \in {" L1 ", "L4", " ", "", None}, t \in {" tr1 ", "tr2", " ", "", None} :
          call = [fn |-> "build_image_name", done |-> FALSE, label |-> l, trace_id |-> t]
    \/ \E x \in {PyNone} \cup {PyBool(b) : b \in BOOLEAN} \cup {PyInt(n) : n \in -1..2},
          d \in BOOLEAN :
          call = [fn |-> "_coerce_bool", done |-> FALSE, value |-> x, default |-> d]
    \/ \E n \in 0..MaxRows, z \in 1..MaxSize :
          call = [fn |-> "_chunked", done |-> FALSE, sequence |-> [x \in 1..n |-> x],
                  size |-> z]
    \/ \E p \in {"LXNS", "DIVING_FISH", "WECHAT", "lxns", None},
          a \in UNION {[1..n -> {Acct("a", "LXNS"), Acct("b", "DIVING_FISH"),
                                Acct("c", "LXNS")}] : n \in 0..MaxSize} :
          call = [fn |-> "_select_primary_account", done |-> FALSE,
                  prefer_server |-> p, accounts |-> a]
    \/ \E u \in {"uuid-1", "uuid-2"},
          q \in {<<>>} \cup
                {<<[DefaultPreference("alice") EXCEPT
                      !.maimai_version = v, !.qr_size = z, !.mask_type = m,
                      !.character_id = c, !.background_id = "bg-1",
                      !.chara_info_color = h, !.show_date = d]>> :
                    v \in {"", "FESTiVAL"}, z \in {0, 20}, m \in {0, 3},
                    c \in {"char-1", "1a0bbc52", "img-9"},
                    h \in {"", "#fee37c", "#000000"}, d \in BOOLEAN},
          l \in {[x \in {} |-> ""], [x \in {"img-9"} |-> "t-9"]} :
          call = [fn |-> "_build_preference_row", done |-> FALSE,
                  user |-> MigratedUser([username |-> "alice"], u, "dvfh_alice",
                                        Acct("a", "DIVING_FISH"),
                                        <<Acct("a", "DIVING_FISH")>>),
                  pref |-> q, image_uuid_lookup |-> l]

CallInit ==
    /\ NoRun
    /\ NoCopy
    /\ InitCalls

\* the function returns `value`, or raises when `value` is <<>>
Returns(value) ==
    /\ ~call.done
    /\ call' = [ret |-> value] @@ [call EXCEPT !.done = TRUE]
    /\ UNCHANGED <<progVars, copyVars>>

CallDeriveAspectId ==
    /\ call.fn = "derive_aspect_id"
    /\ Returns(derive_aspect_id(call.kind))

CallBuildImageLabels ==
    /\ call.fn = "build_image_labels"
    /\ Returns(build_image_labels(call.kind, call.category, call.workshop))

CallBuildImageName ==
    /\ call.fn = "build_image_name"
    /\ Returns(build_image_name(call.label, call.trace_id))

CallCoerceBool ==
    /\ call.fn = "_coerce_bool"
    /\ Returns(_coerce_bool(call.value, call.default))

CallChunked ==
    /\ call.fn = "_chunked"
    /\ Returns(_chunked(call.sequence, call.size))

CallSelectPrimaryAccount ==
    /\ call.fn = "_select_primary_account"
    /\ Returns(_select_primary_account(call.prefer_server, call.accounts))

CallBuildPreferenceRow ==
    /\ call.fn = "_build_preference_row"
    /\ Returns(_build_preference_row(call.user, call.pref, call.image_uuid_lookup))

CallNext ==
    \/ CallDeriveAspectId
    \/ CallBuildImageLabels
    \/ CallBuildImageName
    \/ CallCoerceBool
    \/ CallChunked
    \/ CallSelectPrimaryAccount
    \/ CallBuildPreferenceRow

CallSpec == CallInit /\ [][CallNext]_vars

(***************************************************************************)
(* Properties of the transaction coordinator.                              *)
(***************************************************************************)
\* C1: once a section has raised, nothing is committed on any endpoint: the
\* committed content of every database stays what it was when the run started,
\* and when the run has ended every transaction is rolled back and no write of
\* an earlier section is left in any database.
C1_RollbackOnSectionFailure ==
    failed_at # None =>
        /\ db = pre
        /\ \A e \in EndpointSet(variant) : tx[e] # "committed"
        /\ pc = "done" =>
              \A e \in EndpointSet(variant) :
                  tx[e] = "rolledback" /\ work[e] = pre[e]

\* a run_merge_up run that ended after the images section raised while both
\* targets held uncommitted writes of the earlier sections
C1_Witness ==
    /\ pc = "done"
    /\ variant = "merge_up"
    /\ failed_at = "images"
    /\ {"leporid", "usagipass"} \subseteq dirty
    /\ raised = "InfraError"

\* C2: a run that has ended has committed all of its target databases or none
\* of them, also when a commit or a rollback call failed after an earlier one
\* had succeeded.
C2_AllOrNothing ==
    pc = "done" =>
        \A a, b \in Targets(variant) : (tx[a] = "committed") <=> (tx[b] = "committed")

\* names of the sections whose counters the run returns
Sections(v) ==
    IF v = "merge" THEN {"users", "images"}
    ELSE {"users", "third_parties", "accounts", "ratings", "preferences", "images"}

\* C3: a dry run never changes the committed content of any database, leaves
\* no write behind when it has ended, and when it returns it returns the
\* counters of every section.
C3_DryRunLeavesTargets ==
    config.dry_run =>
        /\ db = pre
        /\ pc = "done" =>
              /\ \A e \in EndpointSet(variant) : work[e] = pre[e]
              /\ raised = None => DOMAIN result = Sections(variant)

\* a dry run that returned after its sections had issued writes and counted
\* inserted rows
C3_Witness ==
    /\ pc = "done"
    /\ config.dry_run
    /\ raised = None
    /\ "users" \in DOMAIN wrote
    /\ wrote["users"] # <<>>
    /\ result["users"].inserted > 0
    /\ result["images"].processed > 0

\* C4: the error a section raised reaches the caller as it was raised, and no
\* result is returned.
C4_ErrorPropagatesUnchanged ==
    (pc = "done" /\ failed_at # None) => (raised = thrown /\ result = None)

\* C5: when the run has ended, every engine that was created is disposed and
\* every connection that was opened is closed.
C5_ResourcesReleased ==
    pc = "done" =>
        \A e \in EndpointSet(variant) :
            engine[e] # "created" /\ conn[e] # "open"

(***************************************************************************)
(* Properties of the sections.                                             *)
(***************************************************************************)
\* C6: a second run over the same source and the target a committed first run
\* produced counts no inserted row in any section, counts as updated the rows
\* the first run counted as written, and adds no row to any target table.
C6_Idempotent ==
    (pc = "done" /\ run = 2 /\ raised = None) =>
        /\ \A sec \in Sections(variant) :
              /\ result[sec].inserted = 0
              /\ result[sec].updated =
                     first.result[sec].inserted + first.result[sec].updated
        /\ \A e \in Targets(variant) :
              \A tbl \in DOMAIN db[e] : Cardinality(db[e][tbl]) = Cardinality(pre[e][tbl])

\* the target username _migrate_users derives for a source user: <<name>>, or
\* <<>> when the user has no account on a supported server
DerivedUsername(user) ==
    LET primary == PrimaryOf(user, accounts_by_user(user.username))
    IN IF primary = <<>> THEN <<>>
       ELSE <<SERVER_RULES[primary[1].account_server].prefix \o primary[1].account_name>>

\* positions of the source users that derive the username an earlier one derived
Collided ==
    {b \in DOMAIN SourceUsers :
        /\ DerivedUsername(SourceUsers[b]) # <<>>
        /\ \E a \in 1..(b - 1) :
              DerivedUsername(SourceUsers[a]) = DerivedUsername(SourceUsers[b])}

\* C7: when source users derive the same target username, tbl_user holds at
\* most one row with that username after the migration and the users section
\* counts every later such source user as skipped.
C7_CollisionSkipped ==
    (pc = "done" /\ raised = None /\ variant = "merge_up") =>
        /\ \A x \in DOMAIN SourceUsers :
              \A name \in Range(DerivedUsername(SourceUsers[x])) :
                  Cardinality({r \in db.leporid.tbl_user : r.username = name}) <= 1
        /\ result["users"].skipped >=
               Cardinality(Collided) +
               Cardinality({x \in DOMAIN SourceUsers :
                               DerivedUsername(SourceUsers[x]) = <<>>})

\* the endpoint that holds tbl_user
UserTarget(v) == IF v = "merge" THEN "target" ELSE "leporid"

\* C8: no two rows of the target tbl_user share a username, and in run_merge
\* (where every source user arrives under a new id) a row that was in tbl_user
\* before the run under the username of a source user is still there with its
\* id and all its fields.
C8_UsernameUnique ==
    /\ \A a, b \in work[UserTarget(variant)].tbl_user :
          a.username = b.username => a = b
    /\ variant = "merge" =>
          \A r \in pre.target.tbl_user :
              (\E x \in DOMAIN pre.source.users : pre.source.users[x].username = r.username)
                  => r \in work.target.tbl_user

\* a committed run_merge over a target that held alice under another id: the
\* users section counted alice, her old row is the only one with that username,
\* and bob was added
C8_Witness ==
    /\ pc = "done"
    /\ variant = "merge"
    /\ raised = None
    /\ run = 1
    /\ ~config.dry_run
    /\ pre.target = TargetSeeded
    /\ result["users"].processed = 2
    /\ \E r \in db.target.tbl_user : r.id = "old-u1" /\ r.username = "alice"
    /\ \E r \in db.target.tbl_user : r.username = "bob"
    /\ Cardinality(db.target.tbl_user) = 3

\* sections of run_merge_up whose rows reference a migrated user
DependentSections == {"third_parties", "accounts", "ratings", "preferences", "images"}

\* C9: in run_merge_up every row a dependent section builds for a source user
\* carries the id held by that user's MigratedUser, and while the leporid
\* transaction is open or committed that id is the id of the tbl_user row
\* written under the user's derived username.
C9_StableUserId ==
    variant = "merge_up" =>
        /\ \A r \in refs :
              /\ r.section \in DependentSections
              /\ \E x \in DOMAIN migrated_users :
                    /\ migrated_users[x].source = r.source
                    /\ migrated_users[x].new_user_id = r.user_id
              /\ \A x \in DOMAIN migrated_users :
                    migrated_users[x].source = r.source
                        => migrated_users[x].new_user_id = r.user_id
        /\ (refs # {} /\ tx.leporid \in {"active", "committed"}) =>
              \A x \in DOMAIN migrated_users :
                  \E u \in work.leporid.tbl_user :
                      /\ u.id = migrated_users[x].new_user_id
                      /\ u.username = migrated_users[x].new_username

\* a committed run_merge_up in which one source user has rows in all five
\* dependent sections, and one whose id was reused from the target
C9_Witness ==
    /\ pc = "done"
    /\ variant = "merge_up"
    /\ raised = None
    /\ tx.leporid = "committed"
    /\ \E x \in DOMAIN migrated_users :
          \A sec \in DependentSections :
              [section |-> sec, source |-> migrated_users[x].source,
               user_id |-> migrated_users[x].new_user_id] \in refs
    /\ \E x \in DOMAIN migrated_users : migrated_users[x].new_user_id = "old-u1"

\* C10: within one run no key of a minting section (derived username; account
\* name and strategy; user id and server id) is resolved to two different ids,
\* and during the users section every username resolved so far is in the
\* in-memory map under the id it was given.
C10_OneIdPerKey ==
    /\ \A a, b \in assigned :
          (a.section = b.section /\ a.key = b.key) => a.id = b.id
    /\ pc = "users" =>
          \A a \in assigned :
              a.section = "users" =>
                  /\ a.key[1] \in DOMAIN existing
                  /\ existing[a.key[1]] = a.id

\* a first run over empty targets that ended after each minting section met a
\* key again that it had minted an id for earlier in the run
C10_Witness ==
    /\ pc = "done"
    /\ variant = "merge_up"
    /\ run = 1
    /\ raised = None
    /\ pre.leporid = LeporidEmpty
    /\ pre.usagipass = UsagipassEmpty
    /\ result["users"].inserted = 1
    /\ result["users"].updated = 1
    /\ result["third_parties"].updated >= 1
    /\ result["accounts"].updated >= 1
    /\ \A sec \in {"users", "third_parties", "accounts"} :
          \E a \in assigned : a.section = sec

\* C11: a key is reconciled as an update exactly when the existing-key map
\* held it, the row of an update is written under the id the map held, and the
\* key of a run_merge_up user is the username derived for a source user.
C11_ReconcilerReusesId ==
    \A a \in assigned :
        /\ (a.decision = "updated") <=> (a.held # None)
        /\ a.decision = "updated" => a.id = a.held
        /\ (variant = "merge_up" /\ a.section = "users") =>
              \E x \in DOMAIN SourceUsers : DerivedUsername(SourceUsers[x]) = <<a.key[1]>>

\* positions of the coordinator at which a section iterates over its source rows
RowPcs ==
    {"users", "third_parties", "accounts", "ratings", "preferences", "images",
     "m_users", "m_images"}

\* a step of a section's loop from one source row to the next
RowStep == pc \in RowPcs /\ pc' = pc /\ <<i, j>>' # <<i, j>>

\* the step counted its row: processed and exactly one other counter grew by one
CountedOnce ==
    /\ summary'.processed = summary.processed + 1
    /\ summary'.inserted >= summary.inserted
    /\ summary'.updated >= summary.updated
    /\ summary'.skipped >= summary.skipped
    /\ summary'.inserted + summary'.updated + summary'.skipped =
          summary.inserted + summary.updated + summary.skipped + 1

\* C12: every source row a section iterates over adds one to processed and one
\* to exactly one of inserted, updated and skipped.
C12_CountersPerRow == [][RowStep => CountedOnce]_vars

\* the source row the current section is about to process fails validation: a
\* user without supported account, an account on an unsupported server, an
\* image of unknown kind or unmapped uploader, a username held in the target
\* under another id
FailsValidation ==
    CASE pc = "users" -> DerivedUsername(SourceUsers[i]) = <<>>
      [] pc \in {"third_parties", "accounts"} ->
            migrated_users[i].accounts[j].account_server \notin SupportedServers
      [] pc = "images" ->
            \/ MigratedBySource(SourceImages[i].uploaded_by) = <<>>
            \/ derive_aspect_id(SourceImages[i].kind) = <<>>
      [] pc = "m_images" ->
            \/ ImageOwner(work.source.images[i]) = <<>>
            \/ derive_aspect_id(work.source.images[i].kind) = <<>>
      [] pc = "m_users" ->
            work.source.users[i].username
                \in DOMAIN _collect_existing_usernames(work.target.tbl_user)
      [] OTHER -> FALSE

\* C13: a source row that fails validation adds one to skipped and nothing to
\* inserted or updated.
C13_InvalidRowSkipped ==
    [][(RowStep /\ FailsValidation) =>
          /\ summary'.skipped = summary.skipped + 1
          /\ summary'.inserted = summary.inserted
          /\ summary'.updated = summary.updated]_vars

\* the run returned after committing
CommittedRun ==
    /\ pc = "done"
    /\ raised = None
    /\ ~config.dry_run

\* source images of run_merge_up that pass validation: known kind, uploaded by
\* a source user who has an account on a supported server
ValidUpImages ==
    {r \in Range(db.source.images) :
        /\ Upper(OrEmpty(r.kind)) \in KIND_TO_ASPECT
        /\ \E x \in DOMAIN SourceUsers :
              /\ SourceUsers[x].username = r.uploaded_by
              /\ DerivedUsername(SourceUsers[x]) # <<>>}

\* source images of run_merge that pass validation: known kind, and uploaded
\* by a source user whose username is in the target, or by nobody when an
\* admin id is configured
ValidMergeImages ==
    {r \in Range(db.source.images) :
        /\ Upper(OrEmpty(r.kind)) \in KIND_TO_ASPECT
        /\ IF r.uploaded_by = None THEN config.admin_user_id # None
           ELSE \E u \in Range(db.source.users) :
                    /\ u.id = r.uploaded_by
                    /\ \E t \in db.target.tbl_user : t.username = u.username}

\* C14: a step that skips a row stays in its section and raises nothing, and
\* a run that returned after committing iterated over every image row and
\* holds a target row for every source user and image that passes validation,
\* whatever rows were skipped before them.
C14_SkipDoesNotAbort ==
    /\ [][(pc \in RowPcs /\ summary'.skipped > summary.skipped) =>
              (pc' = pc /\ err' = None /\ i' = i + 1)]_vars
    /\ [](CommittedRun =>
            /\ \A e \in EndpointSet(variant) : tx[e] = "committed"
            /\ result["images"].processed =
                  IF variant = "merge" THEN Len(db.source.images) ELSE Len(SourceImages)
            /\ variant = "merge_up" =>
                  /\ \A x \in DOMAIN SourceUsers :
                        \A name \in Range(DerivedUsername(SourceUsers[x])) :
                            \E u \in db.leporid.tbl_user : u.username = name
                  /\ \A r \in ValidUpImages :
                        \E t \in db.leporid.tbl_image : t.id = r.id
            /\ variant = "merge" =>
                  \A r \in ValidMergeImages :
                      \E t \in db.target.tbl_image : t.id = r.uuid)

\* a committed run_merge_up that skipped its first user and three images and
\* still wrote the later user and that user's image
C14_Witness ==
    /\ CommittedRun
    /\ variant = "merge_up"
    /\ run = 1
    /\ pre.leporid = LeporidEmpty
    /\ DerivedUsername(SourceUsers[1]) = <<>>
    /\ result["users"].skipped = 1
    /\ result["users"].inserted = 1
    /\ result["images"].skipped = 3
    /\ \E t \in db.leporid.tbl_image : t.id = "img5"

\* the sections in the order of the calls of _execute_merge_up and run_merge
SectionOrder(v) ==
    IF v = "merge" THEN <<"users", "images">>
    ELSE <<"users", "third_parties", "accounts", "ratings", "preferences", "images">>

\* the section the coordinator is in, if any
CurrentSection ==
    CASE pc \in {"users", "upsert_users", "m_users"} -> {"users"}
      [] pc \in {"third_parties", "accounts", "ratings", "preferences"} -> {pc}
      [] pc \in {"aspects", "images", "m_images_init", "m_images"} -> {"images"}
      [] OTHER -> {}

\* sections that have processed or written a row, or are running
Begun ==
    {a.section : a \in assigned} \cup {r.section : r \in refs} \cup DOMAIN wrote
        \cup CurrentSection

\* number of rows a section has handed to its upsert statement
WroteLen(sec) == IF sec \in DOMAIN wrote THEN Len(wrote[sec]) ELSE 0

\* C15: a section has begun only when every section before it in the fixed
\* order has returned, and in run_merge_up a dependent section has begun only
\* when the row of every migrated user has been written to tbl_user.
C15_SectionOrder ==
    /\ \A x \in DOMAIN SectionOrder(variant) :
          SectionOrder(variant)[x] \in Begun =>
              \A y \in 1..(x - 1) : SectionOrder(variant)[y] \in DOMAIN results
    /\ (variant = "merge_up" /\ Begun \cap DependentSections # {}) =>
          WroteLen("users") = Len(migrated_users)

\* the images section of run_merge_up at work on its second row after every
\* earlier section wrote the rows of two migrated users
C15_Witness ==
    /\ variant = "merge_up"
    /\ pc = "images"
    /\ i = 2
    /\ Len(migrated_users) = 2
    /\ WroteLen("users") = 2
    /\ DOMAIN results =
          {"users", "third_parties", "accounts", "ratings", "preferences"}
    /\ WroteLen("preferences") = 2

\* C16: the committed transactions are always the first ones of the order
\* source, leporid, usagipass (run_merge_up) or target, source (run_merge),
\* a transaction is committed only without dry_run and after all sections
\* returned, and a run that returned after committing has committed every
\* transaction, leaving none open or rolled back.
C16_CommitOrder ==
    LET order == IF variant = "merge" THEN <<"target", "source">>
                 ELSE <<"source", "leporid", "usagipass">>
    IN /\ \A x \in DOMAIN order :
             tx[order[x]] = "committed" =>
                 /\ \A y \in 1..(x - 1) : tx[order[y]] = "committed"
                 /\ ~config.dry_run
                 /\ failed_at = None
       /\ pc = "commit" =>
             \A x \in DOMAIN order :
                 tx[order[x]] = IF x < k THEN "committed" ELSE "active"
       /\ CommittedRun => \A e \in EndpointSet(variant) : tx[e] = "committed"

\* run_merge_up about to commit usagipass, the third transaction, after source
\* and leporid were committed with the writes of the sections
C16_Witness ==
    /\ variant = "merge_up"
    /\ pc = "commit"
    /\ k = 3
    /\ tx = [source |-> "committed", leporid |-> "committed", usagipass |-> "active"]
    /\ db.leporid # pre.leporid
    /\ work.usagipass # db.usagipass

\* C17: while a section runs, and when the first one starts, every endpoint
\* has an open connection and an active transaction; before that nothing was
\* read or written, and an endpoint holds uncommitted writes only inside its
\* active transaction.
C17_BeginBeforeSections ==
    /\ pc \in SectionPcs \cup {"end"} =>
          \A e \in EndpointSet(variant) : conn[e] = "open" /\ tx[e] = "active"
    /\ pc \in {"create", "connect", "begin"} =>
          /\ work = db
          /\ Begun = {}
          /\ results = <<>>
          /\ existing = <<>>
          /\ migrated_users = <<>>
    /\ \A e \in EndpointSet(variant) : work[e] # db[e] => tx[e] = "active"

\* the first section of run_merge_up about to start with three open
\* connections and three active transactions
C17_Witness ==
    /\ variant = "merge_up"
    /\ pc = "load"
    /\ \A e \in {"source", "leporid", "usagipass"} :
          conn[e] = "open" /\ tx[e] = "active"

\* the run started against a target that fails a precondition: tbl_server
\* without divingfish or lxns (run_merge_up), or an admin_user_id that is the
\* id of no row of tbl_user (run_merge)
PreconditionFails ==
    IF variant = "merge_up"
    THEN \E s \in {"divingfish", "lxns"} :
             \A r \in pre.usagipass.tbl_server :
                 Lower(Strip(OrEmpty(r.identifier))) # s
    ELSE /\ config.admin_user_id # None
         /\ \A t \in pre.target.tbl_user : t.id # config.admin_user_id

\* C18: a run whose precondition fails commits nothing on any endpoint,
\* writes no image row, never gets past the failing check (the load of the
\* server ids, the admin check of merge_images), and ends raising an error and
\* returning no result.
C18_PreconditionFatal ==
    PreconditionFails =>
        /\ db = pre
        /\ \A e \in EndpointSet(variant) : tx[e] # "committed"
        /\ "images" \notin DOMAIN wrote
        /\ work[UserTarget(variant)].tbl_image = pre[UserTarget(variant)].tbl_image
        /\ pc = "done" => (raised # None /\ result = None)
        /\ pc \notin {"end", "commit"}
        /\ IF variant = "merge_up" THEN pc \notin SectionPcs \ {"load"}
           ELSE pc # "m_images"

\* a run_merge that ended raising the ValueError of the admin check after the
\* users section had written to the target
C18_Witness ==
    /\ pc = "done"
    /\ variant = "merge"
    /\ config.admin_user_id = "nobody"
    /\ failed_at = "m_images_init"
    /\ thrown = "ValueError"
    /\ raised = "ValueError"
    /\ "target" \in dirty

\* C19: while the transaction that holds tbl_image is open or committed, image
\* rows are processed or written only with a row of id id-1-ff in
\* tbl_image_aspect; there is never more than one such row, every aspect row
\* that was there before the run is still there with all its fields, and a row
\* that was added is the default one.
C19_DefaultAspectEnsured ==
    LET e == UserTarget(variant)
        aspects == work[e].tbl_image_aspect
    IN /\ (tx[e] \in {"active", "committed"} /\
            (pc \in {"images", "m_images"} \/ WroteLen("images") > 0)) =>
             \E r \in aspects : r.id = "id-1-ff"
       /\ \A r, q \in aspects : r.id = q.id => r = q
       /\ \A r \in pre[e].tbl_image_aspect : r \in aspects
       /\ \A r \in aspects : r \in pre[e].tbl_image_aspect \/ r = DefaultAspect

\* a second committed run_merge_up that wrote images and found, and left, the
\* default aspect row that the first run had inserted
C19_Witness ==
    /\ CommittedRun
    /\ variant = "merge_up"
    /\ run = 2
    /\ pre.leporid.tbl_image_aspect = {DefaultAspect}
    /\ db.leporid.tbl_image_aspect = {DefaultAspect}
    /\ WroteLen("images") > 0

\* the four preference fields that hold image references
ReferenceFields == {"character_id", "background_id", "frame_id", "passname_id"}

\* the preference row the step of _migrate_preferences has just built
BuiltPreference ==
    IF payload' # <<>> THEN payload'[Len(payload')]
    ELSE wrote'["preferences"][Len(wrote'["preferences"])]

\* C20: each of the four reference fields of a preference row that
\* _migrate_preferences builds holds J[v] when the source value v is a key of
\* the join-derived lookup J, otherwise S[v] when v is a key of the static
\* table S, otherwise v itself; a row is built for every migrated user.
C20_ResolutionPrecedence ==
    [][(pc = "preferences" /\ RowStep) =>
         LET J == _build_image_uuid_lookup
             S == uuid_mapping
             got == preferences_by_user(migrated_users[i].source)
             src == IF got = <<>> THEN DefaultPreference(migrated_users[i].source)
                    ELSE got[1]
         IN \A f \in ReferenceFields :
               BuiltPreference[f] =
                   CASE src[f] \in DOMAIN J -> J[src[f]]
                     [] src[f] \notin DOMAIN J /\ src[f] \in DOMAIN S -> S[src[f]]
                     [] OTHER -> src[f]]_vars

\* preference rows were written whose references took each of the three
\* paths: a value that is a key of both the lookup and the static table went
\* through the lookup, a key of the static table alone through the table, and
\* a value known to neither was kept
C20_Witness ==
    /\ variant = "merge_up"
    /\ WroteLen("preferences") > 0
    /\ \E n \in 1..WroteLen("preferences") :
          LET row == wrote["preferences"][n]
          IN /\ row.character_id = "img1"
             /\ "1a0bbc52" \in DOMAIN uuid_mapping
             /\ row.background_id = uuid_mapping["1051f05f"]
             /\ row.frame_id = "zzz"
             /\ row.passname_id = ""

(***************************************************************************)
(* copy-img: _copy_images (copy_img.py 65-109) over the ids of tbl_image,  *)
(* one step per id.                                                        *)
(***************************************************************************)
\* number of image ids in tbl_image
MaxIds == 2

\* the ids of tbl_image, in ORDER BY id order
Ids == SubSeq(<<"im1", "im2", "im3">>, 1, MaxIds)

\* f"{image_id}.webp"
FileName(image_id) == <<image_id, ".webp">>

\* a regular file holding `data`, and a directory
File(data) == [type |-> "file", data |-> data]

Dir == [type |-> "dir", data |-> ""]

\* the directories that hold, under the name of each listed id, a file with
\* `data`, a directory or nothing
Directories(data) ==
    UNION {[{FileName(x) : x \in S} -> {File(data), Dir}] : S \in SUBSET Range(Ids)}

\* Path.is_file() and Path.exists()
is_file(dir, name) == name \in DOMAIN dir /\ dir[name].type = "file"

exists(dir, name) == name \in DOMAIN dir

\* a destination that is overwritten whether or not the flag is set
NeverKept(name) == FALSE

\* `overwrite and dst_path.exists()` with a destination unlink() cannot remove
UnlinkRaises(name) ==
    overwrite /\ exists(target_dir, name) /\ target_dir[name].type = "dir"

\* shutil.copy2(src_path, dst_path): the destination becomes a copy of the
\* source file; into a destination that is a directory the file is copied
\* under its own name, which leaves the entry a directory
copy2(name) ==
    IF exists(target_dir, name) /\ target_dir[name].type = "dir" THEN target_dir
    ELSE [n \in DOMAIN target_dir \cup {name} |->
             IF n = name THEN source_dir[name] ELSE target_dir[n]]

\* `dst_path.exists() and not overwrite`
KeptExisting(name) == exists(target_dir, name) /\ ~overwrite

\* stats.<counter> += 1 after stats.processed += 1
Counted(counter) ==
    [stats EXCEPT !.processed = @ + 1, ![counter] = @ + 1]

CopyInit ==
    /\ NoRun
    /\ call = NoCall
    /\ overwrite \in BOOLEAN
    /\ source_dir \in Directories("new")
    /\ target_dir \in Directories("old")
    /\ \E S \in SUBSET Range(Ids) : image_ids = SelectSeq(Ids, LAMBDA x : x \in S)
    /\ stats = CopyImageStats
    /\ copy_pc = "rows"
    /\ copy_at = 1

\* one pass of the loop over the streamed rows
CopyRow ==
    /\ copy_pc = "rows"
    /\ copy_at <= Len(image_ids)
    /\ LET name == FileName(image_ids[copy_at])
       IN /\ ~(is_file(source_dir, name) /\ ~KeptExisting(name) /\ UnlinkRaises(name))
          /\ IF ~is_file(source_dir, name)
             THEN stats' = Counted("skipped_missing") /\ target_dir' = target_dir
             ELSE IF KeptExisting(name)
             THEN stats' = Counted("skipped_existing") /\ target_dir' = target_dir
             ELSE /\ stats' = Counted("copied")
                  /\ target_dir' = copy2(name)
    /\ copy_at' = copy_at + 1
    /\ UNCHANGED <<progVars, libVars, overwrite, source_dir, image_ids, copy_pc>>

\* dst_path.unlink() raises on a destination that is a directory
CopyRowRaises ==
    /\ copy_pc = "rows"
    /\ copy_at <= Len(image_ids)
    /\ LET name == FileName(image_ids[copy_at])
       IN /\ is_file(source_dir, name)
          /\ ~KeptExisting(name)
          /\ UnlinkRaises(name)
    /\ stats' = [stats EXCEPT !.processed = @ + 1]
    /\ copy_pc' = "raised"
    /\ UNCHANGED <<progVars, libVars, overwrite, source_dir, target_dir, image_ids, copy_at>>

\* the rows are exhausted: _copy_images returns stats
CopyDone ==
    /\ copy_pc = "rows"
    /\ copy_at > Len(image_ids)
    /\ copy_pc' = "returned"
    /\ UNCHANGED <<progVars, libVars, overwrite, source_dir, target_dir, image_ids, stats,
                   copy_at>>

CopyNext ==
    \/ CopyRow
    \/ CopyRowRaises
    \/ CopyDone

CopySpec == CopyInit /\ [][CopyNext]_vars

(***************************************************************************)
(* Properties of the helper functions.                                     *)
(***************************************************************************)
\* the call of `fn` has returned or raised
Called(fn) == call.fn = fn /\ call.done

\* C21: derive_aspect_id returns "id-1-ff" for BACKGROUND, FRAME, CHARACTER,
\* MASK and LABEL in upper, lower or mixed case, and raises UnknownAspectError
\* for every other string, the empty string and a null kind included.
C21_AspectMapping ==
    Called("derive_aspect_id") =>
        IF call.kind \in Kinds THEN call.ret = <<"id-1-ff">> ELSE call.ret = <<>>

\* derive_aspect_id was called with a kind in mixed case and returned the aspect
C21_Witness ==
    /\ Called("derive_aspect_id")
    /\ call.kind = "Character"
    /\ call.ret = <<"id-1-ff">>

\* C22: build_image_labels returns the lower-cased kind when there is a kind,
\* then the trimmed lower-cased category when there is one that is not blank,
\* then "workshop" when the flag is set, and nothing else.
C22_LabelComposition ==
    Called("build_image_labels") =>
        call.ret =
            (CASE call.kind = "FRAME" -> <<"frame">>
               [] call.kind \in {"MASK", "Mask"} -> <<"mask">>
               [] OTHER -> <<>>)
            \o (IF call.category \in {"Holiday", " Holiday "} THEN <<"holiday">> ELSE <<>>)
            \o (IF call.workshop THEN <<"workshop">> ELSE <<>>)

\* build_image_labels was called with a kind, a category to trim and the flag,
\* and returned the three labels in order
C22_Witness ==
    /\ Called("build_image_labels")
    /\ call.kind = "FRAME"
    /\ call.category = " Holiday "
    /\ call.workshop
    /\ call.ret = <<"frame", "holiday", "workshop">>

\* C27: build_image_name returns the trimmed label when the label is not
\* blank, otherwise the trimmed trace id when that is not blank, otherwise the
\* empty string, and returns for every combination of null, blank and
\* non-blank arguments.
C27_NameComposition ==
    Called("build_image_name") =>
        call.ret =
            CASE call.label = " L1 " -> "L1"
              [] call.label = "L4" -> "L4"
              [] call.label \in {" ", "", None} /\ call.trace_id = " tr1 " -> "tr1"
              [] call.label \in {" ", "", None} /\ call.trace_id = "tr2" -> "tr2"
              [] OTHER -> ""

\* build_image_name was called with a blank label and a trace id to trim, and
\* returned the trimmed trace id
C27_Witness ==
    /\ Called("build_image_name")
    /\ call.label = " "
    /\ call.trace_id = " tr1 "
    /\ call.ret = "tr1"

\* C28: _coerce_bool returns the default for None, the value for a bool and
\* value != 0 for an int, which is a boolean in each case.
C28_BooleanCoercion ==
    Called("_coerce_bool") =>
        /\ call.ret \in BOOLEAN
        /\ call.value = PyNone => call.ret = call.default
        /\ \A b \in BOOLEAN : call.value = PyBool(b) => call.ret = b
        /\ \A n \in -1..2 : call.value = PyInt(n) => call.ret = (n # 0)

\* _coerce_bool was called with None and the default True, and returned True
C28_Witness ==
    /\ Called("_coerce_bool")
    /\ call.value = PyNone
    /\ call.default
    /\ call.ret

(***************************************************************************)
(* Properties of the batch upserters.                                      *)
(***************************************************************************)
\* the rows that section `sec` has handed to its upsert statement, in log `w`
RowsOf(w, sec) == IF sec \in DOMAIN w THEN w[sec] ELSE <<>>

\* sequence `a` is the beginning of sequence `b`
IsPrefix(a, b) == Len(a) <= Len(b) /\ SubSeq(b, 1, Len(a)) = a

\* the step stays in the run and no section raises in it
Proceeds == run' = run /\ failed_at' = None /\ failed_at = None

\* the step leaves the loop of the section without an error
LeavesSection == Proceeds /\ pc \in RowPcs \cup {"upsert_users"} /\ pc' # pc

\* C23: a statement is handed at most batch_size rows, and exactly batch_size
\* unless it is the last one of its section; the rows written and the rows
\* still accumulated are, in source order, the rows accepted so far, each once;
\* and when the section ends every accepted row has been written.
C23_BatchesWriteAll ==
    [][Proceeds =>
         \A sec \in CurrentSection :
            LET old == RowsOf(wrote, sec)
                new == RowsOf(wrote', sec)
                held == IF pc = "upsert_users" THEN <<>> ELSE payload
                held2 == IF pc' = "upsert_users" \/ pc' # pc THEN <<>> ELSE payload'
            IN /\ IsPrefix(old, new)
               /\ Len(new) - Len(old) <= config.batch_size
               /\ (new # old /\ ~LeavesSection /\ pc # "upsert_users") =>
                      Len(new) - Len(old) = config.batch_size
               /\ (pc = "upsert_users" /\ new # old /\ Len(new) < Len(payload)) =>
                      Len(new) - Len(old) = config.batch_size
               /\ (pc \in RowPcs /\ pc' = pc) => IsPrefix(old \o held, new \o held2)
               /\ (LeavesSection /\ pc' # "upsert_users") =>
                      new = IF pc = "upsert_users" THEN payload ELSE old \o payload]_vars

\* C24: _upsert_leporid_users and _upsert_users only write: the rows their
\* statement is executed with are the rows of the chunk they were given,
\* whatever the target table holds, because nothing is looked up in the target
\* while a chunk is flushed.
C24_UpsertWriteOnly ==
    [][Proceeds =>
         LET old == RowsOf(wrote, "users")
             new == RowsOf(wrote', "users")
         IN /\ (pc = "upsert_users" /\ pc' = pc) =>
                   new = old \o _chunked(payload, config.batch_size)[i]
            /\ (pc = "m_users" /\ pc' = pc /\ Len(payload) + 1 >= config.batch_size) =>
                   /\ Len(new) = Len(old) + Len(payload) + 1
                   /\ IsPrefix(old \o payload, new)
            /\ (pc = "m_users" /\ pc' # pc) => new = old \o payload]_vars

(***************************************************************************)
(* Properties of copy-img.                                                 *)
(***************************************************************************)
\* the step handles one row of tbl_image
HandlesRow == copy_pc = "rows" /\ stats'.processed = stats.processed + 1

\* the file name of the row being handled
RowName == FileName(image_ids[copy_at])

\* C25: without the overwrite flag no entry of the target directory is ever
\* changed or removed, and a row whose source file and destination both exist
\* adds one to skipped_existing and nothing to copied.
C25_ExistingKept ==
    [][(copy_pc = "rows" /\ ~overwrite) =>
          /\ \A n \in DOMAIN target_dir :
                n \in DOMAIN target_dir' /\ target_dir'[n] = target_dir[n]
          /\ (HandlesRow /\ is_file(source_dir, RowName) /\ exists(target_dir, RowName)) =>
                /\ stats'.skipped_existing = stats.skipped_existing + 1
                /\ stats'.copied = stats.copied]_vars

\* _copy_images has returned without the flag, a destination file that was
\* there is left with its old content although the source file differs, and
\* the row was counted as skipped_existing
C25_Witness ==
    /\ copy_pc = "returned"
    /\ ~overwrite
    /\ image_ids # <<>>
    /\ LET name == FileName(image_ids[1])
       IN /\ is_file(source_dir, name)
          /\ exists(target_dir, name)
          /\ target_dir[name] = File("old")
          /\ source_dir[name] = File("new")
    /\ stats.skipped_existing >= 1
    /\ stats.copied = 0

\* C26: every row adds one to exactly one of copied, skipped_missing and
\* skipped_existing; it is skipped_missing exactly when its source file is
\* absent, and copied exactly when the source file exists and the destination is
\* absent or overwrite is set, and then the destination holds the source's
\* content.
C26_Classification ==
    [][HandlesRow =>
          LET src == is_file(source_dir, RowName)
              dst == exists(target_dir, RowName)
              d(c) == stats'[c] - stats[c]
          IN /\ \A c \in {"copied", "skipped_missing", "skipped_existing"} : d(c) \in {0, 1}
             /\ d("copied") + d("skipped_missing") + d("skipped_existing") = 1
             /\ d("skipped_missing") = 1 <=> ~src
             /\ d("copied") = 1 <=> (src /\ (~dst \/ overwrite))
             /\ d("copied") = 1 =>
                   /\ exists(target_dir', RowName)
                   /\ target_dir'[RowName] = source_dir[RowName]]_vars

\* when _copy_images has returned, the counters add up to the number of ids
CopyTotals ==
    copy_pc = "returned" =>
        /\ stats.processed = Len(image_ids)
        /\ stats.processed = stats.copied + stats.skipped_missing + stats.skipped_existing

(***************************************************************************)
(* Properties of the section loops.                                        *)
(***************************************************************************)
\* number of rows the loop of the running section iterates over
NumRows ==
    CASE pc = "users" -> Len(SourceUsers)
      [] pc \in {"third_parties", "accounts", "ratings", "preferences"} -> Len(migrated_users)
      [] pc = "images" -> Len(SourceImages)
      [] pc = "m_users" -> Len(work.source.users)
      [] pc = "m_images" -> Len(work.source.images)
      [] OTHER -> 0

\* the loop position after the row at <<i, j>>
Advanced ==
    IF pc \in {"third_parties", "accounts"}
    THEN IF j < Len(migrated_users[i].accounts) THEN <<i, j + 1>> ELSE <<i + 1, 1>>
    ELSE <<i + 1, j>>

\* C29: a section starts at its first row, every step of its loop moves to the
\* next row and never back or to the same row, it returns only when every row
\* has been passed, and every section that has started returns or raises; the
\* run ends.
C29_RowsOnceAndDone ==
    /\ [][(Proceeds /\ pc \in RowPcs) =>
             /\ pc' = pc => (i <= NumRows /\ <<i, j>>' = Advanced)
             /\ pc' # pc => i > NumRows]_vars
    /\ [][(Proceeds /\ pc' \in RowPcs /\ pc' # pc) => i' = 1]_vars
    /\ \A sec \in {"users", "third_parties", "accounts", "ratings", "preferences", "images"} :
          (sec \in CurrentSection) ~> (sec \in DOMAIN results \/ failed_at # None)
    /\ <>[](pc = "done")

\* a committed run of run_merge_up with two migrated users in which all six
\* sections returned and the images section passed every source image,
\* skipping some of them
C29_Witness ==
    /\ CommittedRun
    /\ variant = "merge_up"
    /\ Len(migrated_users) = 2
    /\ DOMAIN results =
          {"users", "third_parties", "accounts", "ratings", "preferences", "images"}
    /\ results.images.skipped > 0
    /\ results.images.processed = Len(SourceImages)

(***************************************************************************)
(* Properties of the users section of run_merge_up.                        *)
(***************************************************************************)
\* positions in `accounts` of the accounts on server `server`
OnServer(accounts, server) == {x \in 1..Len(accounts) : accounts[x].account_server = server}

\* positions in `accounts` of the accounts on DIVING_FISH or LXNS
OnSupported(accounts) == OnServer(accounts, "DIVING_FISH") \cup OnServer(accounts, "LXNS")

\* smallest member of a non-empty set of positions
First(S) == CHOOSE x \in S : \A y \in S : x <= y

\* C30: a source user is skipped exactly when none of its accounts is on a
\* supported server (a user without accounts included); every MigratedUser has
\* as primary its first account on the preferred server when that server is
\* supported and the user has an account on it, otherwise its first account on
\* a supported server, and its new_username is that server's prefix followed
\* by the primary account's name.
C30_PrimaryAccount ==
    /\ [](variant = "merge_up" =>
            \A n \in 1..Len(migrated_users) :
               LET m == migrated_users[n]
                   user == CHOOSE u \in Range(SourceUsers) : u.username = m.source
                   preferred == IF user.prefer_server \in {"DIVING_FISH", "LXNS"}
                                THEN OnServer(m.accounts, user.prefer_server)
                                ELSE {}
                   chosen == IF preferred # {} THEN First(preferred)
                             ELSE First(OnSupported(m.accounts))
               IN /\ OnSupported(m.accounts) # {}
                  /\ m.primary_account = m.accounts[chosen]
                  /\ m.primary_account.account_server \in {"DIVING_FISH", "LXNS"}
                  /\ m.new_username =
                        (IF m.primary_account.account_server = "DIVING_FISH"
                         THEN "dvfh_" ELSE "lxns_") \o m.primary_account.account_name)
    /\ [][(pc = "users" /\ RowStep) =>
             LET skipped == OnSupported(accounts_by_user(SourceUsers[i].username)) = {}
             IN /\ skipped <=> migrated_users' = migrated_users
                /\ skipped => summary'.skipped = summary.skipped + 1
                /\ ~skipped =>
                      /\ Len(migrated_users') = Len(migrated_users) + 1
                      /\ migrated_users'[Len(migrated_users')].source =
                            SourceUsers[i].username]_vars

\* two users were migrated: one whose primary is its second account, on the
\* preferred server, and one that has no account on its preferred server and
\* got its first supported account
C30_Witness ==
    /\ variant = "merge_up"
    /\ Len(migrated_users) = 2
    /\ \E n \in 1..2 :
          /\ migrated_users[n].primary_account.account_name = "b"
          /\ migrated_users[n].accounts[1].account_name = "a"
          /\ migrated_users[n].new_username = "lxns_b"
    /\ \E n \in 1..2 :
          /\ migrated_users[n].primary_account.account_server = "DIVING_FISH"
          /\ migrated_users[n].new_username = "dvfh_a"
          /\ \E u \in Range(SourceUsers) :
                u.username = migrated_users[n].source /\ u.prefer_server = "LXNS"

(***************************************************************************)
(* The account helpers of merge_up.                                        *)
(***************************************************************************)
\* C31: _select_primary_account(prefer_server, accounts) returns the first
\* account of the list whose account_server equals prefer_server, whatever
\* accounts on other servers precede it, and None when no account of the
\* list (the empty list included) is on that server.
C31_FirstOnPreferredServer ==
    Called("_select_primary_account") =>
        LET accounts == call.accounts
            matching == {n \in 1..Len(accounts) :
                            accounts[n].account_server = call.prefer_server}
        IN /\ matching = {} => call.ret = <<>>
           /\ matching # {} =>
                 \E n \in matching :
                    /\ call.ret = <<accounts[n]>>
                    /\ \A m \in 1..(n - 1) :
                          accounts[m].account_server # call.prefer_server

\* the function returned the second account of a list of three: the first is
\* on another server and the third is a different account on the preferred one
C31_Witness ==
    /\ Called("_select_primary_account")
    /\ Len(call.accounts) = 3
    /\ call.accounts[1].account_server # call.prefer_server
    /\ call.accounts[3].account_server = call.prefer_server
    /\ call.accounts[2] # call.accounts[3]
    /\ call.ret = <<call.accounts[2]>>

\* C32: _build_preference_row always yields a row whose user_id is the
\* migrated user's new_user_id.  With no source preference the row has
\* player_info_color "#ffffff", chara_info_color "#fee37c", mask_id "",
\* show_dx_rating and show_date true, qr_size 15 and mask_type 0.  With a
\* source preference the row carries its maimai_version, qr_size, mask_type
\* and show_date, each reference id that is a key of neither the lookup nor
\* the static table, and its chara_info_color, "#fee37c" when that is "".
C32_PreferenceRow ==
    Called("_build_preference_row") =>
        LET row == call.ret
            lookup == call.image_uuid_lookup
        IN /\ row.user_id = call.user.new_user_id
           /\ call.pref = <<>> =>
                 /\ row.player_info_color = "#ffffff"
                 /\ row.chara_info_color = "#fee37c"
                 /\ row.mask_id = ""
                 /\ row.show_dx_rating = TRUE
                 /\ row.show_date = TRUE
                 /\ row.qr_size = 15
                 /\ row.mask_type = 0
           /\ call.pref # <<>> =>
                 LET pref == call.pref[1]
                 IN /\ row.maimai_version = pref.maimai_version
                    /\ row.qr_size = pref.qr_size
                    /\ row.mask_type = pref.mask_type
                    /\ row.show_date = pref.show_date
                    /\ \A f \in ReferenceFields :
                          pref[f] \notin DOMAIN lookup \cup DOMAIN uuid_mapping =>
                              row[f] = pref[f]
                    /\ row.chara_info_color =
                          IF pref.chara_info_color = "" THEN "#fee37c"
                          ELSE pref.chara_info_color

\* a row was built from a preference with maimai_version FESTiVAL, qr_size 20,
\* mask_type 3, show_date false, background bg-1 and an empty chara_info_color
C32_Witness ==
    /\ Called("_build_preference_row")
    /\ call.pref # <<>>
    /\ call.pref[1].chara_info_color = ""
    /\ call.pref[1].show_date = FALSE
    /\ call.ret.maimai_version = "FESTiVAL"
    /\ call.ret.qr_size = 20
    /\ call.ret.mask_type = 3
    /\ call.ret.background_id = "bg-1"
    /\ call.ret.chara_info_color = "#fee37c"

(***************************************************************************)
(* Attribution of the images of run_merge.                                 *)
(***************************************************************************)
\* the image row the step of a section's loop has just built
BuiltImage ==
    IF payload' # <<>> THEN payload'[Len(payload')]
    ELSE wrote'["images"][Len(wrote'["images"])]

\* the step skipped its row
SkipsRow == summary'.skipped = summary.skipped + 1

\* C33: in the images section of run_merge an image with no uploader is
\* skipped when admin_user_id is not configured, and is otherwise attributed
\* to admin_user_id with visibility 1 and the labels of its kind and category
\* alone; an image whose uploader is not a source user, or whose uploader's
\* username no target user holds, is skipped; an image that is written for
\* its uploader carries the id the target holds for the uploader's username,
\* visibility 0 and the labels of its kind and category followed by
\* "workshop".
C33_WorkshopAttribution ==
    [][(variant = "merge" /\ pc = "m_images" /\ RowStep) =>
          LET row == work.source.images[i]
              uploader == {u \in Range(work.source.users) : u.id = row.uploaded_by}
              holders == {t \in work.target.tbl_user :
                             \E u \in uploader : t.username = u.username}
              plain == build_image_labels(row.kind, row.category, FALSE)
          IN /\ (row.uploaded_by = None /\ config.admin_user_id = None) => SkipsRow
             /\ (row.uploaded_by # None /\ holders = {}) => SkipsRow
             /\ (~SkipsRow /\ row.uploaded_by = None) =>
                   /\ BuiltImage.user_id = config.admin_user_id
                   /\ BuiltImage.visibility = 1
                   /\ BuiltImage.labels = plain
                   /\ "workshop" \notin Range(BuiltImage.labels)
             /\ (~SkipsRow /\ row.uploaded_by # None) =>
                   /\ BuiltImage.user_id \in {t.id : t \in holders}
                   /\ BuiltImage.visibility = 0
                   /\ BuiltImage.labels = plain \o <<"workshop">>]_vars

\* run_merge with an admin_user_id has written an image of a real uploader
\* with visibility 0 and the workshop label, and an image with no uploader
\* for the administrative user with visibility 1 and no workshop label, and
\* has skipped an image
C33_Witness ==
    /\ variant = "merge"
    /\ config.admin_user_id # None
    /\ "images" \in DOMAIN results
    /\ results["images"].skipped > 0
    /\ \E a, b \in Range(RowsOf(wrote, "images")) :
          /\ a.visibility = 0
          /\ "workshop" \in Range(a.labels)
          /\ a.user_id # config.admin_user_id
          /\ b.visibility = 1
          /\ "workshop" \notin Range(b.labels)
          /\ b.user_id = config.admin_user_id

(***************************************************************************)
(* Counters and written rows.                                              *)
(***************************************************************************)
\* C34: when a section of run_merge or run_merge_up has returned and its
\* statements have run (the users of run_merge_up are written by
\* _upsert_leporid_users after _migrate_users has returned), the number of
\* rows handed to its upsert statement equals inserted + updated of its
\* result, the accounts section with DIVING_FISH accounts and the users
\* section of run_merge with colliding usernames included.
C34_CountersAgree ==
    \A sec \in DOMAIN results :
        \/ sec = "users" /\ pc = "upsert_users"
        \/ WroteLen(sec) = results[sec].inserted + results[sec].updated

(***************************************************************************)
(* Owners of the image rows.                                               *)
(***************************************************************************)
\* the user table of the database the images are written to
ImageUsers(w) == IF variant = "merge_up" THEN w.leporid.tbl_user ELSE w.target.tbl_user

\* C35: every image row handed to the upsert statement has a user_id that
\* is the id of a row of the target user table when the statement runs.  In
\* run_merge_up it is the new_user_id of the user of this run's
\* migrated_users whose source username uploaded the image, so that the
\* images of users skipped in the users section are never written; in
\* run_merge it is the configured admin_user_id for an image with no
\* uploader, and otherwise the id tbl_user holds for the uploader's username.
C35_ImageOwnerExists ==
    [][WroteLen("images") < Len(RowsOf(wrote', "images")) =>
          \A n \in (WroteLen("images") + 1)..Len(wrote'["images"]) :
             LET r == wrote'["images"][n]
             IN /\ \E t \in ImageUsers(work) : t.id = r.user_id
                /\ \E t \in ImageUsers(work') : t.id = r.user_id
                /\ variant = "merge_up" =>
                      \E s \in Range(work.source.images), x \in DOMAIN migrated_users :
                         /\ s.id = r.id
                         /\ s.uploaded_by = migrated_users[x].source
                         /\ r.user_id = migrated_users[x].new_user_id
                /\ variant = "merge" =>
                      \E s \in Range(work.source.images) :
                         /\ s.uuid = r.id
                         /\ s.uploaded_by = None =>
                               /\ config.admin_user_id # None
                               /\ r.user_id = config.admin_user_id
                         /\ s.uploaded_by # None =>
                               \E u \in Range(work.source.users), t \in ImageUsers(work) :
                                  /\ u.id = s.uploaded_by
                                  /\ t.username = u.username
                                  /\ t.id = r.user_id]_vars

\* run_merge_up has skipped source user u2 in the users section, has written
\* an image for a migrated user and has returned from the images section
\* without writing the image u2 uploaded
C35_Witness ==
    /\ variant = "merge_up"
    /\ "images" \in DOMAIN results
    /\ results["users"].skipped > 0
    /\ \A x \in DOMAIN migrated_users : migrated_users[x].source # "u2"
    /\ WroteLen("images") > 0
    /\ \E s \in Range(work.source.images) :
          /\ s.uploaded_by = "u2"
          /\ \A r \in Range(wrote["images"]) : r.id # s.id

(***************************************************************************)
(* The source database.                                                    *)
(***************************************************************************)
\* C36: the source database is only read: at every point of a run of
\* run_merge or run_merge_up, whether it commits, is a dry run or fails, the
\* rows seen on the source connection and the rows stored in the source
\* database are the rows the source held before the run.
C36_SourceReadOnly ==
    pre # <<>> =>
        /\ work.source = pre.source
        /\ db.source = pre.source

\* a run that was not a dry run has returned its result and has changed a
\* target database, with the source as it was before the run
C36_Witness ==
    /\ pc = "done"
    /\ raised = None
    /\ ~config.dry_run
    /\ "images" \in DOMAIN results
    /\ db # pre
    /\ db.source = pre.source

(***************************************************************************)
(* Ratings and preferences of run_merge_up.                                *)
(***************************************************************************)
\* the sections of run_merge_up that write rows for the migrated users
UserSections == {"third_parties", "accounts", "ratings", "preferences"}

\* C37: when the ratings section, and likewise the preferences section, of
\* run_merge_up has returned, its processed equals the number of migrated
\* users, its skipped is 0 and it has written one row per migrated user, in
\* order, under that user's new_user_id; the rating is the player_rating of
\* the user's primary account, and a user with no source preference has a
\* preference row as well.  Every third-party, account, rating and preference
\* row is written for a migrated user, none for a user the users section
\* skipped.
C37_OneRowPerMigratedUser ==
    variant = "merge_up" =>
        /\ \A sec \in {"ratings", "preferences"} \cap DOMAIN results :
              /\ results[sec].processed = Len(migrated_users)
              /\ results[sec].skipped = 0
              /\ WroteLen(sec) = Len(migrated_users)
              /\ \A n \in DOMAIN migrated_users :
                    wrote[sec][n].user_id = migrated_users[n].new_user_id
        /\ "ratings" \in DOMAIN results =>
              \A n \in DOMAIN migrated_users :
                  /\ wrote["ratings"][n].rating =
                        migrated_users[n].primary_account.player_rating
                  /\ migrated_users[n].primary_account \in
                        Range(accounts_by_user(migrated_users[n].source))
        /\ \A sec \in UserSections :
              \A r \in Range(RowsOf(wrote, sec)) :
                  \E n \in DOMAIN migrated_users : r.user_id = migrated_users[n].new_user_id
        /\ \A ref \in refs :
              ref.section \in UserSections =>
                  \E n \in DOMAIN migrated_users : ref.source = migrated_users[n].source

\* run_merge_up has skipped a user in the users section and has returned from
\* the preferences section with a rating and a preference row for a migrated
\* user who has no row in user_preferences and whose primary account is not
\* the first of the user's accounts
C37_Witness ==
    /\ variant = "merge_up"
    /\ "preferences" \in DOMAIN results
    /\ results["users"].skipped > 0
    /\ \E n \in DOMAIN migrated_users :
          /\ preferences_by_user(migrated_users[n].source) = <<>>
          /\ migrated_users[n].primary_account # migrated_users[n].accounts[1]
          /\ wrote["preferences"][n].user_id = migrated_users[n].new_user_id
          /\ wrote["ratings"][n].rating = migrated_users[n].primary_account.player_rating

====
